---- MODULE Spec2Model ----
(***************************************************************************)
(* Autostep: the run-state store (package state) and the step-execution    *)
(* engine (package runner), with the command-line entry points that drive  *)
(* them (cmd/autostep: `run`, `resume-pending`, the service start).        *)
(*                                                                         *)
(* One operating-system process at a time works on the state file.  Every  *)
(* Store method is one atomic action (it holds Store.mu from entry to      *)
(* return, persistLocked included); the engine's position between two      *)
(* Store calls is the program counter pc.                                  *)
(***************************************************************************)
EXTENDS Integers, Sequences, FiniteSets, TLC

(***************************************************************************)
(* Bounds of the model.                                                    *)
(***************************************************************************)
MaxWork  == 4     \* engine calls plus steps of the workflows started, all together
MaxClock == 1     \* time.Now() returns 0..MaxClock

MaxSteps == MaxWork - 1     \* longest workflow
MaxRuns  == MaxWork         \* most runs

(***************************************************************************)
(* Values of the program.                                                  *)
(***************************************************************************)
StatusPending       == "pending"
StatusRunning       == "running"
StatusCompleted     == "completed"
StatusFailed        == "failed"
StatusPendingReboot == "pending_reboot"

Nil      == -1    \* the nil *int of PendingRebootNext
NoKey    == 0     \* the empty string as a map key
ZeroTime == -1    \* the zero time.Time, before every time.Now()

(***************************************************************************)
(* Error values and error texts are sequences of strings, so that          *)
(* fmt.Errorf("prefix: %w", e) is prefix followed by the text of e.  The   *)
(* empty sequence is the nil error and the empty string.                   *)
(***************************************************************************)
NoErr == <<>>

ErrRebooting  == <<"reboot requested">>
ErrHandler    == <<"step failed">>               \* a validation or execution error
ErrOutput     == <<"reg save failed", "\\xff">>   \* an error text quoting command output
ErrReboot     == <<"restart request failed">>    \* the error of actions.RequestReboot
ErrIO         == <<"write state failed">>        \* the error of persistLocked
ErrOutOfRange == <<"start index out of range">>
ErrPanic      == <<"panic: index out of range">>
ErrExists     == <<"run already exists">>
ErrNotFound   == <<"run not found">>
ErrUnknownAction == <<"unknown action">>         \* the error of execStep's default case

Wrap(prefix, e) == <<prefix>> \o e

RunIds == 1..MaxRuns
Times  == 0..MaxClock

Terminal(st) == st = StatusCompleted \/ st = StatusFailed

(***************************************************************************)
(* Workflow definitions are input of the engine.  It reads of a workflow   *)
(* its name, the number of its steps, and of the step it is at the id, the *)
(* action tag and (reboot handler) safe_mode and resume_delay_seconds.     *)
(* The manifest holds one workflow of every length up to MaxSteps, named   *)
(* by its length; the id of the step at index i is i + 1 (0 stands for the *)
(* empty id of a zero StepRecord).  The tag and the parameters of a step   *)
(* are drawn when the engine dispatches it.                                *)
(***************************************************************************)
WorkflowNames == 0..MaxSteps

NumSteps(workflowName) == workflowName       \* len(wf.Steps)

StepID(i) == i + 1                           \* wf.Steps[i].ID

Actions == {"act", "reboot"}                 \* the tags execStep has a case for

RebootParams == { [SafeMode |-> TRUE, ResumeDelaySeconds |-> 1] }

(***************************************************************************)
(* state.RunRecord / state.StepRecord.  Step index i of the program is     *)
(* position i+1 of the TLA+ sequence.                                      *)
(***************************************************************************)
ZeroStep == [StepID |-> 0, Status |-> "", Error |-> <<>>]

StepAt(rec, i) == rec.Steps[i + 1]

InRange(rec, i) == i >= 0 /\ i < Len(rec.Steps)

SetStep(rec, i, sr) == [rec EXCEPT !.Steps[i + 1] = sr]

(***************************************************************************)
(* Store.pruneHistoryLocked.  The two loops range over a Go map, whose     *)
(* iteration order is unspecified: `order` is the order of the first loop. *)
(***************************************************************************)
Orders(S) == { o \in [1..Cardinality(S) -> S] : \A k \in S : \E i \in DOMAIN o : o[i] = k }

\* The records the first loop does not skip once runID has become terminal:
\* the order in which the loop meets them is all its result depends on.
Terminals(m, runID) == { k \in DOMAIN m : Terminal(m[k].Status) } \cup {runID}

RECURSIVE ScanLatest(_, _, _, _)
ScanLatest(m, order, latestKey, latestTime) ==
  IF order = <<>> THEN latestKey
  ELSE LET k    == Head(order)
           v    == m[k]
           take == Terminal(v.Status) /\ (v.UpdatedAt > latestTime \/ latestKey = NoKey)
       IN ScanLatest(m, Tail(order),
                     IF take THEN k ELSE latestKey,
                     IF take THEN v.UpdatedAt ELSE latestTime)

\* pruneHistoryLocked that deletes nothing.
pruneHistoryLocked_KeepAll(m, order) == m

\* pruneHistoryLocked whose second loop deletes every record but latestKey.
pruneHistoryLocked_OnlyLatest(m, order) ==
  LET latestKey == ScanLatest(m, order, NoKey, ZeroTime)
      keep      == { k \in DOMAIN m : k = latestKey }
  IN [k \in keep |-> m[k]]

pruneHistoryLocked(m, order) ==
  LET latestKey == ScanLatest(m, order, NoKey, ZeroTime)
      keep      == { k \in DOMAIN m : ~Terminal(m[k].Status) \/ k = latestKey }
  IN [k \in keep |-> m[k]]

(***************************************************************************)
(* The Store methods as functions of the run map.  Each yields the new     *)
(* map, the error found before persistLocked (NoErr if none) and whether   *)
(* persistLocked is reached.  t is the value of time.Now().                *)
(***************************************************************************)
Res(m, e, p) == [runs |-> m, err |-> e, persist |-> p, fresh |-> {}]

\* The method assigned a new pointer (or nil) to PendingRebootNext of runID.
Fresh(res, runID) == [res EXCEPT !.fresh = {runID}]

\* StartRun that does not look for the run id and replaces the record.
StartRun_Overwrite(m, runID, workflowName, totalSteps, t) ==
  Res([k \in DOMAIN m \cup {runID} |->
         IF k = runID
         THEN [RunID |-> runID, WorkflowName |-> workflowName,
               Status |-> StatusRunning, UpdatedAt |-> t,
               CurrentStepIndex |-> 0, PendingRebootNext |-> Nil,
               PendingBootMode |-> "", Steps |-> [i \in 1..totalSteps |-> ZeroStep],
               LastError |-> <<>>, ResumeDelaySeconds |-> 0,
               TotalSteps |-> totalSteps]
         ELSE m[k]], NoErr, TRUE)

StartRun(m, runID, workflowName, totalSteps, t) ==
  IF runID \in DOMAIN m THEN Res(m, ErrExists, FALSE)
  ELSE Res([k \in DOMAIN m \cup {runID} |->
              IF k = runID
              THEN [RunID |-> runID, WorkflowName |-> workflowName,
                    Status |-> StatusRunning, UpdatedAt |-> t,
                    CurrentStepIndex |-> 0, PendingRebootNext |-> Nil,
                    PendingBootMode |-> "", Steps |-> [i \in 1..totalSteps |-> ZeroStep],
                    LastError |-> <<>>, ResumeDelaySeconds |-> 0,
                    TotalSteps |-> totalSteps]
              ELSE m[k]], NoErr, TRUE)

\* MarkStepPending that returns nil without reaching persistLocked.
MarkStepPending_Unsaved(m, runID, stepIndex, stepID, t) ==
  IF runID \notin DOMAIN m THEN Res(m, ErrNotFound, FALSE)
  ELSE LET rec == [m[runID] EXCEPT !.Status = StatusRunning,
                                   !.CurrentStepIndex = stepIndex,
                                   !.UpdatedAt = t]
       IN IF ~InRange(rec, stepIndex)
          THEN Res([m EXCEPT ![runID] = rec], ErrPanic, FALSE)
          ELSE Res([m EXCEPT ![runID] =
                      SetStep(rec, stepIndex,
                              [StepID |-> stepID, Status |-> StatusPending, Error |-> <<>>])],
                   NoErr, FALSE)

MarkStepPending(m, runID, stepIndex, stepID, t) ==
  IF runID \notin DOMAIN m THEN Res(m, ErrNotFound, FALSE)
  ELSE LET rec == [m[runID] EXCEPT !.Status = StatusRunning,
                                   !.CurrentStepIndex = stepIndex,
                                   !.UpdatedAt = t]
       IN IF ~InRange(rec, stepIndex)
          THEN Res([m EXCEPT ![runID] = rec], ErrPanic, FALSE)
          ELSE Res([m EXCEPT ![runID] =
                      SetStep(rec, stepIndex,
                              [StepID |-> stepID, Status |-> StatusPending, Error |-> <<>>])],
                   NoErr, TRUE)

\* MarkStepComplete that also puts the run back to running.
MarkStepComplete_Running(m, runID, stepIndex, t) ==
  IF runID \notin DOMAIN m THEN Res(m, ErrNotFound, FALSE)
  ELSE LET rec == m[runID]
       IN IF ~InRange(rec, stepIndex) THEN Res(m, ErrPanic, FALSE)
          ELSE Res([m EXCEPT ![runID] =
                      [SetStep(rec, stepIndex,
                               [StepID |-> StepAt(rec, stepIndex).StepID,
                                Status |-> StatusCompleted, Error |-> <<>>])
                         EXCEPT !.Status = StatusRunning,
                                !.CurrentStepIndex = stepIndex, !.UpdatedAt = t]],
                   NoErr, TRUE)

MarkStepComplete(m, runID, stepIndex, t) ==
  IF runID \notin DOMAIN m THEN Res(m, ErrNotFound, FALSE)
  ELSE LET rec == m[runID]
       IN IF ~InRange(rec, stepIndex) THEN Res(m, ErrPanic, FALSE)
          ELSE Res([m EXCEPT ![runID] =
                      [SetStep(rec, stepIndex,
                               [StepID |-> StepAt(rec, stepIndex).StepID,
                                Status |-> StatusCompleted, Error |-> <<>>])
                         EXCEPT !.CurrentStepIndex = stepIndex, !.UpdatedAt = t]],
                   NoErr, TRUE)

MarkStepFailed(m, runID, stepIndex, errMsg, t, order) ==
  IF runID \notin DOMAIN m THEN Res(m, ErrNotFound, FALSE)
  ELSE LET rec == m[runID]
       IN IF ~InRange(rec, stepIndex) THEN Res(m, ErrPanic, FALSE)
          ELSE Res(pruneHistoryLocked(
                     [m EXCEPT ![runID] =
                        [SetStep(rec, stepIndex,
                                 [StepID |-> StepAt(rec, stepIndex).StepID,
                                  Status |-> StatusFailed, Error |-> errMsg])
                           EXCEPT !.Status = StatusFailed, !.LastError = errMsg,
                                  !.UpdatedAt = t]], order),
                   NoErr, TRUE)

MarkPendingReboot(m, runID, nextStep, bootMode, delaySeconds, t) ==
  IF runID \notin DOMAIN m THEN Res(m, ErrNotFound, FALSE)
  ELSE Fresh(Res([m EXCEPT ![runID] =
                    [m[runID] EXCEPT !.Status = StatusPendingReboot,
                                     !.PendingRebootNext = nextStep,
                                     !.PendingBootMode = bootMode,
                                     !.ResumeDelaySeconds = delaySeconds,
                                     !.UpdatedAt = t]], NoErr, TRUE), runID)

\* ClearPendingReboot that returns nil for a run id the map does not have.
ClearPendingReboot_Lenient(m, runID, t) ==
  IF runID \notin DOMAIN m THEN Res(m, NoErr, FALSE)
  ELSE Fresh(Res([m EXCEPT ![runID] =
                    [m[runID] EXCEPT !.Status = StatusRunning,
                                     !.PendingRebootNext = Nil,
                                     !.PendingBootMode = "",
                                     !.ResumeDelaySeconds = 0,
                                     !.UpdatedAt = t]], NoErr, TRUE), runID)

ClearPendingReboot(m, runID, t) ==
  IF runID \notin DOMAIN m THEN Res(m, ErrNotFound, FALSE)
  ELSE Fresh(Res([m EXCEPT ![runID] =
                    [m[runID] EXCEPT !.Status = StatusRunning,
                                     !.PendingRebootNext = Nil,
                                     !.PendingBootMode = "",
                                     !.ResumeDelaySeconds = 0,
                                     !.UpdatedAt = t]], NoErr, TRUE), runID)

MarkRunCompleted(m, runID, t, order) ==
  IF runID \notin DOMAIN m THEN Res(m, ErrNotFound, FALSE)
  ELSE Res(pruneHistoryLocked(
             [m EXCEPT ![runID] =
                [m[runID] EXCEPT !.Status = StatusCompleted, !.UpdatedAt = t]], order),
           NoErr, TRUE)

(***************************************************************************)
(* The state file.  json.MarshalIndent writes every field except the       *)
(* omitempty ones that hold their zero value; json.Unmarshal gives an      *)
(* absent field its zero value.  NoFile is the missing file.               *)
(***************************************************************************)
NoFile == [present |-> FALSE, content |-> <<>>]

File(c) == [present |-> TRUE, content |-> c]

\* encoding/json writes a Go string as a JSON string coerced to valid UTF-8:
\* every byte that is not part of a valid encoding becomes U+FFFD.  An error
\* text is a sequence of pieces; "\\xff" stands for bytes that are no UTF-8.
ToValidUTF8(e) == [i \in DOMAIN e |-> IF e[i] = "\\xff" THEN "\\ufffd" ELSE e[i]]

MarshalStep(sr) ==
  [k \in {"step_id", "status"} \cup (IF sr.Error = <<>> THEN {} ELSE {"error"}) |->
     CASE k = "step_id" -> sr.StepID
       [] k = "status"  -> sr.Status
       [] k = "error"   -> ToValidUTF8(sr.Error)]

UnmarshalStep(o) ==
  [StepID |-> o["step_id"], Status |-> o["status"],
   Error  |-> IF "error" \in DOMAIN o THEN o["error"] ELSE <<>>]

MarshalRecord(rec) ==
  [k \in {"run_id", "workflow_name", "status", "updated_at", "current_step_index",
          "steps", "total_steps"}
         \cup (IF rec.PendingRebootNext = Nil THEN {} ELSE {"pending_reboot_next"})
         \cup (IF rec.PendingBootMode = "" THEN {} ELSE {"pending_boot_mode"})
         \cup (IF rec.LastError = <<>> THEN {} ELSE {"last_error"})
         \cup (IF rec.ResumeDelaySeconds = 0 THEN {} ELSE {"resume_delay_seconds"}) |->
     CASE k = "run_id"               -> rec.RunID
       [] k = "workflow_name"        -> rec.WorkflowName
       [] k = "status"               -> rec.Status
       [] k = "updated_at"           -> rec.UpdatedAt
       [] k = "current_step_index"   -> rec.CurrentStepIndex
       [] k = "steps"                -> [i \in DOMAIN rec.Steps |-> MarshalStep(rec.Steps[i])]
       [] k = "total_steps"          -> rec.TotalSteps
       [] k = "pending_reboot_next"  -> rec.PendingRebootNext
       [] k = "pending_boot_mode"    -> rec.PendingBootMode
       [] k = "last_error"           -> ToValidUTF8(rec.LastError)
       [] k = "resume_delay_seconds" -> rec.ResumeDelaySeconds]

UnmarshalRecord(o) ==
  [RunID |-> o["run_id"], WorkflowName |-> o["workflow_name"],
   Status |-> o["status"], UpdatedAt |-> o["updated_at"],
   CurrentStepIndex |-> o["current_step_index"],
   PendingRebootNext |-> IF "pending_reboot_next" \in DOMAIN o
                         THEN o["pending_reboot_next"] ELSE Nil,
   PendingBootMode |-> IF "pending_boot_mode" \in DOMAIN o
                       THEN o["pending_boot_mode"] ELSE "",
   Steps |-> [i \in DOMAIN o["steps"] |-> UnmarshalStep(o["steps"][i])],
   LastError |-> IF "last_error" \in DOMAIN o THEN o["last_error"] ELSE <<>>,
   ResumeDelaySeconds |-> IF "resume_delay_seconds" \in DOMAIN o
                          THEN o["resume_delay_seconds"] ELSE 0,
   TotalSteps |-> o["total_steps"]]

Marshal(m) == [k \in DOMAIN m |-> MarshalRecord(m[k])]

load(file) ==
  IF ~file.present THEN <<>>
  ELSE [k \in DOMAIN file.content |-> UnmarshalRecord(file.content[k])]

(***************************************************************************)
(* Store.persistLocked: the whole map is marshalled, written to the        *)
(* temporary file and renamed over the state file.  If any of MkdirAll,    *)
(* WriteFile or Rename fails (ok = FALSE) the state file keeps its content *)
(* and the error is returned.                                              *)
(***************************************************************************)
\* persistLocked that returns nil when a write or the rename has failed.
persistLocked_Swallow(m, file, ok) ==
  [file |-> IF ok THEN File(Marshal(m)) ELSE file, err |-> NoErr]

persistLocked(m, file, ok) ==
  [file |-> IF ok THEN File(Marshal(m)) ELSE file, err |-> IF ok THEN NoErr ELSE ErrIO]

(***************************************************************************)
(* Store.Export: a map of copies of the records.                           *)
(***************************************************************************)
Export(m) == [k \in DOMAIN m |-> m[k]]

\* `clone := *v` copies the pointer PendingRebootNext, not the int it points
\* to: the exported records that share that int with the Store's records.
ExportAlias(m) == { k \in DOMAIN m : m[k].PendingRebootNext # Nil }

(***************************************************************************)
(* State.                                                                  *)
(***************************************************************************)
VARIABLES
  disk,       \* content of the state file (state.json)
  now,        \* last value returned by time.Now()
  nextId,     \* the next run identifier `autostep run` creates
  budget,     \* work left to the runs still to be started
  pc,         \* position of the running process; "down" when there is none
  mode,       \* entry point of the process: "run", "resume", "api"
  runs,       \* Store.runs of the running process
  wf,         \* name of the workflow the engine was called with
  cur,        \* runID of the engine invocation
  idx,        \* idx of runFromIndex
  start,      \* start of runFromIndex
  herr,       \* error returned by execStep
  result,     \* error returned by RunWorkflow / ContinueWorkflow
  exports,    \* exports of resumePending
  todo,       \* runs of exports the loop of resumePending has not visited
  call,       \* the last Store method or handler the process called
  done,       \* <<run, step>> whose StepRecord was persisted as completed
  alias,      \* runs of exports whose PendingRebootNext pointer is the Store's own
  tmp,        \* content of the temporary file persistLocked writes (state.json.tmp)
  mu,         \* holder of Store.mu: "free" or the goroutine inside a method
  peer        \* a second process on the same state file: its position and its Store.runs

NoPeer == [pc |-> "down", runs |-> <<>>]

vars == <<disk, now, nextId, budget, pc, mode, runs, wf, cur, idx, start, herr, result,
          exports, todo, call, done, alias, tmp, mu, peer>>

NoCall == [op |-> "none", run |-> 0, idx |-> 0, err |-> NoErr]

Call(op, r, i, e) == [op |-> op, run |-> r, idx |-> i, err |-> e]

Init ==
  /\ disk = NoFile
  /\ now = 0
  /\ nextId = 1
  /\ budget = MaxWork
  /\ pc = "down"
  /\ mode = "none"
  /\ runs = <<>>
  /\ wf = 0
  /\ cur = 0
  /\ idx = 0
  /\ start = 0
  /\ herr = NoErr
  /\ result = NoErr
  /\ exports = <<>>
  /\ todo = {}
  /\ call = NoCall
  /\ done = {}
  /\ alias = {}
  /\ tmp = NoFile
  /\ mu = "free"
  /\ peer = NoPeer

(***************************************************************************)
(* One call of a Store method by the running process: the in-memory map    *)
(* is replaced by the method's result, then persistLocked runs if the      *)
(* method reaches it.  ErrOf is the error the method returns.  A method    *)
(* that returns before time.Now() leaves the clock alone.                  *)
(***************************************************************************)
CompletedOn(file) ==
  { <<r, i>> \in (DOMAIN file.content) \X (0..MaxSteps) :
      /\ i < Len(file.content[r]["steps"])
      /\ file.content[r]["steps"][i + 1]["status"] = StatusCompleted }

ErrOf(res, ok) ==
  IF res.err # NoErr THEN res.err
  ELSE persistLocked(res.runs, disk, ok).err

\* A failed write undone in memory.
StoreCall_Rollback(res, ok, t) ==
  /\ t \in {now, now + 1}
  /\ runs' = IF res.persist /\ ~ok THEN runs ELSE res.runs
  /\ disk' = IF res.persist THEN persistLocked(res.runs, disk, ok).file ELSE disk
  /\ done' = IF res.persist /\ ok THEN done \cup CompletedOn(disk') ELSE done
  /\ alias' = (alias \cap DOMAIN res.runs) \ res.fresh
  /\ now' = IF res.err \in {ErrNotFound, ErrExists} THEN now ELSE t
  /\ res.err \in {ErrNotFound, ErrExists} => t = now

StoreCall(res, ok, t) ==
  /\ t \in {now, now + 1}
  /\ runs' = res.runs
  /\ disk' = IF res.persist THEN persistLocked(res.runs, disk, ok).file ELSE disk
  /\ done' = IF res.persist /\ ok THEN done \cup CompletedOn(disk') ELSE done
  /\ alias' = (alias \cap DOMAIN res.runs) \ res.fresh
  /\ now' = IF res.err \in {ErrNotFound, ErrExists} THEN now ELSE t
  /\ res.err \in {ErrNotFound, ErrExists} => t = now

Return(e) == result' = e /\ pc' = "returned"

(***************************************************************************)
(* The end of a process: it returns from main, or it is terminated (by the *)
(* restart a reboot step requested, by a panic, by anything else).  The    *)
(* Store of the process is lost; the state file stays.                     *)
(***************************************************************************)
Down ==
  /\ pc' = "down"
  /\ mode' = "none"
  /\ runs' = <<>>
  /\ wf' = 0
  /\ cur' = 0
  /\ idx' = 0
  /\ start' = 0
  /\ herr' = NoErr
  /\ result' = NoErr
  /\ exports' = <<>>
  /\ todo' = {}
  /\ call' = NoCall
  /\ alias' = {}

Exit ==
  /\ \/ pc = "returned" /\ mode # "resume"
     \/ pc = "resumeDone"
  /\ Down
  /\ UNCHANGED <<disk, now, nextId, budget, done>>
  /\ UNCHANGED <<tmp, mu, peer>>

Terminate ==
  /\ pc # "down"
  /\ Down
  /\ UNCHANGED <<disk, now, nextId, budget, done>>
  /\ UNCHANGED <<tmp, mu, peer>>

(***************************************************************************)
(* cmd/autostep runWorkflowOnce: the workflow is loaded by name, the Store *)
(* opened, a fresh run id made, RunWorkflow called.                        *)
(***************************************************************************)
runWorkflowOnce ==
  /\ pc = "down"
  /\ \E workflowName \in WorkflowNames :
       /\ 1 + NumSteps(workflowName) <= budget
       /\ budget' = budget - (1 + NumSteps(workflowName))
       /\ wf' = workflowName
  /\ pc' = "StartRun"
  /\ mode' = "run"
  /\ runs' = load(disk)
  /\ cur' = nextId
  /\ nextId' = nextId + 1
  /\ call' = NoCall
  /\ UNCHANGED <<disk, now, idx, start, herr, result, exports, todo, done>>
  /\ UNCHANGED <<alias, tmp, mu, peer>>

(***************************************************************************)
(* Runner.RunWorkflow: StartRun, then runFromIndex from 0.                 *)
(***************************************************************************)
RunWorkflow ==
  /\ pc = "StartRun"
  /\ \E t \in Times, ok \in BOOLEAN :
       LET res == StartRun(runs, cur, wf, NumSteps(wf), t)
           e   == ErrOf(res, ok)
       IN /\ StoreCall(res, ok, t)
          /\ call' = Call("StartRun", cur, 0, e)
          /\ IF e # NoErr
             THEN Return(Wrap("start run", e)) /\ UNCHANGED <<idx, start>>
             ELSE pc' = "loop" /\ idx' = 0 /\ start' = 0 /\ result' = result
  /\ UNCHANGED <<nextId, budget, mode, wf, cur, herr, exports, todo>>
  /\ UNCHANGED <<tmp, mu, peer>>

(***************************************************************************)
(* Runner.runFromIndex, the loop head: MarkStepPending for the step idx,   *)
(* or MarkRunCompleted once idx has reached len(wf.Steps).  An index out   *)
(* of the range of rec.Steps panics inside MarkStepPending.                *)
(***************************************************************************)
runFromIndex_MarkStepPending ==
  /\ pc = "loop"
  /\ idx < NumSteps(wf)
  /\ \E t \in Times, ok \in BOOLEAN :
       LET res == MarkStepPending(runs, cur, idx, StepID(idx), t)
           e   == ErrOf(res, ok)
       IN IF e = ErrPanic
          THEN t = now /\ Down /\ UNCHANGED <<disk, now, done>>
          ELSE /\ StoreCall(res, ok, t)
               /\ call' = Call("MarkStepPending", cur, idx, e)
               /\ IF e # NoErr
                  THEN Return(Wrap("mark step pending", e))
                  ELSE pc' = "exec" /\ result' = result
               /\ UNCHANGED <<mode, wf, cur, idx, start, herr, exports, todo>>
  /\ UNCHANGED <<nextId, budget>>
  /\ UNCHANGED <<tmp, mu, peer>>

runFromIndex_MarkRunCompleted ==
  /\ pc = "loop"
  /\ idx >= NumSteps(wf)
  /\ \E t \in Times, ok \in BOOLEAN, order \in Orders(Terminals(runs, cur)) :
       LET res == MarkRunCompleted(runs, cur, t, order)
           e   == ErrOf(res, ok)
       IN /\ StoreCall(res, ok, t)
          /\ call' = Call("MarkRunCompleted", cur, idx, e)
          /\ Return(e)
  /\ UNCHANGED <<nextId, budget, mode, wf, cur, idx, start, herr, exports, todo>>
  /\ UNCHANGED <<tmp, mu, peer>>

(***************************************************************************)
(* Runner.execStep for a step whose tag is not "reboot": the handler of a  *)
(* registered tag returns nil or a validation/execution error; for any     *)
(* other tag the default case returns the unknown-action error and no      *)
(* handler is called.                                                      *)
(***************************************************************************)
execStep ==
  /\ pc = "exec"
  /\ \E action \in (Actions \cup {"unregistered"}) \ {"reboot"}, e \in {NoErr, ErrHandler, ErrUnknownAction} :
       /\ (action \in Actions) <=> (e # ErrUnknownAction)
       /\ herr' = e
       /\ call' = Call(IF action \in Actions THEN "handler" ELSE "default", cur, idx, e)
       /\ pc' = IF e = NoErr THEN "complete" ELSE "failed"
  /\ UNCHANGED <<disk, now, nextId, budget, mode, runs, wf, cur, idx, start, result,
                 exports, todo, done>>
  /\ UNCHANGED <<alias, tmp, mu, peer>>

(***************************************************************************)
(* Runner.handleReboot: MarkPendingReboot with next = idx + 1, and only    *)
(* if it succeeded actions.RequestReboot; ErrRebooting if both succeeded.  *)
(***************************************************************************)
\* handleReboot that records the reboot step itself as the step to resume at.
handleReboot_next_Same(i) == i

handleReboot_next(i) == i + 1

\* The restart requested whatever MarkPendingReboot returned.
handleReboot_MarkPendingReboot_Ignored ==
  /\ pc = "exec"
  /\ \E step \in RebootParams, t \in Times, ok \in BOOLEAN :
       LET next     == handleReboot_next(idx)
           bootMode == IF step.SafeMode THEN "safe" ELSE "normal"
           res      == MarkPendingReboot(runs, cur, next, bootMode,
                                         step.ResumeDelaySeconds, t)
           e        == ErrOf(res, ok)
       IN /\ StoreCall(res, ok, t)
          /\ call' = Call("MarkPendingReboot", cur, idx, e)
          /\ herr' = e
          /\ pc' = "RequestReboot"
  /\ UNCHANGED <<nextId, budget, mode, wf, cur, idx, start, result, exports, todo>>
  /\ UNCHANGED <<tmp, mu, peer>>

handleReboot_MarkPendingReboot ==
  /\ pc = "exec"
  /\ \E step \in RebootParams, t \in Times, ok \in BOOLEAN :
       LET next     == handleReboot_next(idx)
           bootMode == IF step.SafeMode THEN "safe" ELSE "normal"
           res      == MarkPendingReboot(runs, cur, next, bootMode,
                                         step.ResumeDelaySeconds, t)
           e        == ErrOf(res, ok)
       IN /\ StoreCall(res, ok, t)
          /\ call' = Call("MarkPendingReboot", cur, idx, e)
          /\ herr' = e
          /\ pc' = IF e # NoErr THEN "failed" ELSE "RequestReboot"
  /\ UNCHANGED <<nextId, budget, mode, wf, cur, idx, start, result, exports, todo>>
  /\ UNCHANGED <<tmp, mu, peer>>

handleReboot_RequestReboot ==
  /\ pc = "RequestReboot"
  /\ \E e \in {NoErr, ErrReboot} :
       /\ herr' = IF e = NoErr THEN ErrRebooting ELSE e
       /\ call' = Call("RequestReboot", cur, idx, e)
       /\ pc' = IF e = NoErr THEN "rebooting" ELSE "failed"
  /\ UNCHANGED <<disk, now, nextId, budget, mode, runs, wf, cur, idx, start, result,
                 exports, todo, done>>
  /\ UNCHANGED <<alias, tmp, mu, peer>>

(***************************************************************************)
(* Runner.runFromIndex after execStep: the three branches.                 *)
(***************************************************************************)
runFromIndex_Rebooting ==
  /\ pc = "rebooting"
  /\ \E t \in Times, ok \in BOOLEAN :
       LET res == MarkStepComplete(runs, cur, idx, t)
           e   == ErrOf(res, ok)
       IN /\ StoreCall(res, ok, t)
          /\ call' = Call("MarkStepComplete", cur, idx, e)
          /\ IF e # NoErr
             THEN Return(Wrap("mark step complete after reboot", e))
             ELSE Return(NoErr)
  /\ UNCHANGED <<nextId, budget, mode, wf, cur, idx, start, herr, exports, todo>>
  /\ UNCHANGED <<tmp, mu, peer>>

runFromIndex_MarkStepFailed ==
  /\ pc = "failed"
  /\ \E t \in Times, ok \in BOOLEAN, order \in Orders(Terminals(runs, cur)) :
       LET res == MarkStepFailed(runs, cur, idx, herr, t, order)
           e   == ErrOf(res, ok)
       IN /\ StoreCall(res, ok, t)
          /\ call' = Call("MarkStepFailed", cur, idx, e)
          /\ Return(herr)
  /\ UNCHANGED <<nextId, budget, mode, wf, cur, idx, start, herr, exports, todo>>
  /\ UNCHANGED <<tmp, mu, peer>>

runFromIndex_MarkStepComplete ==
  /\ pc = "complete"
  /\ \E t \in Times, ok \in BOOLEAN :
       LET res == MarkStepComplete(runs, cur, idx, t)
           e   == ErrOf(res, ok)
       IN /\ StoreCall(res, ok, t)
          /\ call' = Call("MarkStepComplete", cur, idx, e)
          /\ IF e # NoErr
             THEN Return(Wrap("mark step complete", e)) /\ idx' = idx
             ELSE pc' = "loop" /\ idx' = idx + 1 /\ result' = result
  /\ UNCHANGED <<nextId, budget, mode, wf, cur, start, herr, exports, todo>>
  /\ UNCHANGED <<tmp, mu, peer>>

(***************************************************************************)
(* Runner.ContinueWorkflow: the range check on startIndex, then            *)
(* ClearPendingReboot, then runFromIndex from startIndex.                  *)
(***************************************************************************)
\* ContinueWorkflow without the test of startIndex.
ContinueWorkflow_NoCheck(runID, workflowName, startIndex) ==
  /\ cur' = runID
  /\ wf' = workflowName
  /\ pc' = "ClearPendingReboot" /\ idx' = startIndex /\ start' = startIndex
  /\ result' = result

ContinueWorkflow(runID, workflowName, startIndex) ==
  /\ cur' = runID
  /\ wf' = workflowName
  /\ IF startIndex < 0 \/ startIndex >= NumSteps(workflowName)
     THEN Return(ErrOutOfRange) /\ UNCHANGED <<idx, start>>
     ELSE pc' = "ClearPendingReboot" /\ idx' = startIndex /\ start' = startIndex
          /\ result' = result

ContinueWorkflow_ClearPendingReboot ==
  /\ pc = "ClearPendingReboot"
  /\ \E t \in Times, ok \in BOOLEAN :
       LET res == ClearPendingReboot(runs, cur, t)
           e   == ErrOf(res, ok)
       IN /\ StoreCall(res, ok, t)
          /\ call' = Call("ClearPendingReboot", cur, idx, e)
          /\ IF e # NoErr
             THEN Return(Wrap("clear pending reboot", e))
             ELSE pc' = "loop" /\ result' = result
  /\ UNCHANGED <<nextId, budget, mode, wf, cur, idx, start, herr, exports, todo>>
  /\ UNCHANGED <<tmp, mu, peer>>

(***************************************************************************)
(* cmd/autostep resumePending (the `resume-pending` command and the        *)
(* goroutine of svcApp.Start): state.Open, Export, then for every exported *)
(* run in pending_reboot the workflow of its name is loaded again and      *)
(* ContinueWorkflow called from its pending_reboot_next.  An error of      *)
(* ContinueWorkflow is logged and the loop goes on.                        *)
(***************************************************************************)
resumePending ==
  /\ pc = "down"
  /\ mode' = "resume"
  /\ runs' = load(disk)
  /\ exports' = Export(load(disk))
  /\ alias' = ExportAlias(load(disk))
  /\ todo' = DOMAIN load(disk)
  /\ pc' = IF DOMAIN load(disk) = {} THEN "resumeDone" ELSE "resumeLoop"
  /\ call' = NoCall
  /\ UNCHANGED <<disk, now, nextId, budget, wf, cur, idx, start, herr, result, done>>
  /\ UNCHANGED <<tmp, mu, peer>>

resumePending_Skip ==
  /\ pc = "resumeLoop"
  /\ \E runID \in todo, located \in BOOLEAN :
       /\ (exports[runID].Status # StatusPendingReboot
             \/ exports[runID].PendingRebootNext = Nil
             \/ ~located)
       /\ todo' = todo \ {runID}
       /\ call' = IF /\ exports[runID].Status = StatusPendingReboot
                     /\ exports[runID].PendingRebootNext # Nil
                  THEN Call("log", runID, 0, <<"skipping run">>)
                  ELSE call
  /\ UNCHANGED <<disk, now, nextId, budget, pc, mode, runs, wf, cur, idx, start,
                 herr, result, exports, done>>
  /\ UNCHANGED <<alias, tmp, mu, peer>>

resumePending_Continue ==
  /\ pc = "resumeLoop"
  /\ \E runID \in todo :
       /\ exports[runID].Status = StatusPendingReboot
       /\ exports[runID].PendingRebootNext # Nil
       /\ todo' = todo \ {runID}
       /\ ContinueWorkflow(runID, exports[runID].WorkflowName,
                           exports[runID].PendingRebootNext)
  /\ call' = NoCall
  /\ herr' = NoErr
  /\ UNCHANGED <<disk, now, nextId, budget, mode, runs, exports, done>>
  /\ UNCHANGED <<alias, tmp, mu, peer>>

\* The loop over the runs left at the first resume that fails.
resumePending_Logged_Stop ==
  /\ pc = "returned"
  /\ mode = "resume"
  /\ pc' = IF result = NoErr THEN "resumeLoop" ELSE "resumeDone"
  /\ wf' = 0 /\ cur' = 0 /\ idx' = 0 /\ start' = 0
  /\ herr' = NoErr /\ result' = NoErr /\ call' = NoCall
  /\ UNCHANGED <<disk, now, nextId, budget, mode, runs, exports, todo, done>>
  /\ UNCHANGED <<alias, tmp, mu, peer>>

resumePending_Logged ==
  /\ pc = "returned"
  /\ mode = "resume"
  /\ pc' = "resumeLoop"
  /\ wf' = 0 /\ cur' = 0 /\ idx' = 0 /\ start' = 0
  /\ herr' = NoErr /\ result' = NoErr /\ call' = NoCall
  /\ UNCHANGED <<disk, now, nextId, budget, mode, runs, exports, todo, done>>
  /\ UNCHANGED <<alias, tmp, mu, peer>>

resumePending_Done ==
  /\ pc = "resumeLoop"
  /\ todo = {}
  /\ pc' = "resumeDone"
  /\ UNCHANGED <<disk, now, nextId, budget, mode, runs, wf, cur, idx, start,
                 herr, result, exports, todo, call, done>>
  /\ UNCHANGED <<alias, tmp, mu, peer>>

(***************************************************************************)
(* The program as shipped: `autostep run`, the resume trigger, and the     *)
(* ends of a process.                                                      *)
(***************************************************************************)
Next ==
  \/ runWorkflowOnce
  \/ RunWorkflow
  \/ runFromIndex_MarkStepPending
  \/ runFromIndex_MarkRunCompleted
  \/ execStep
  \/ handleReboot_MarkPendingReboot
  \/ handleReboot_RequestReboot
  \/ runFromIndex_Rebooting
  \/ runFromIndex_MarkStepFailed
  \/ runFromIndex_MarkStepComplete
  \/ ContinueWorkflow_ClearPendingReboot
  \/ resumePending
  \/ resumePending_Skip
  \/ resumePending_Continue
  \/ resumePending_Logged
  \/ resumePending_Done
  \/ Exit
  \/ Terminate

Spec == Init /\ [][Next]_vars

(***************************************************************************)
(* Two resume triggers on one state file: the goroutine the service starts *)
(* at boot and a manual `autostep resume-pending`, each with the Store it   *)
(* opened.  The actions above are those of the process that is running;    *)
(* peer holds the other one as it was when it last ran, and Switch lets    *)
(* the other one run.  Every Store call writes the file in one step.  A    *)
(* process started by `autostep run` is not interrupted, and letting a    *)
(* process start while the other one is running counts as one unit of      *)
(* work.                                                                   *)
(***************************************************************************)
Switch ==
  LET other == IF peer = NoPeer
               THEN [pc |-> "down", runs |-> <<>>, mode |-> "none", wf |-> 0, cur |-> 0,
                     idx |-> 0, start |-> 0, herr |-> NoErr, result |-> NoErr,
                     exports |-> <<>>, todo |-> {}, call |-> NoCall, alias |-> {}]
               ELSE peer
  IN  /\ mode # "run"
      /\ pc # "down" \/ other.pc # "down"
      /\ IF pc # "down" /\ other.pc = "down"
         THEN budget >= 1 /\ budget' = budget - 1
         ELSE budget' = budget
      /\ peer' = [pc |-> pc, runs |-> runs, mode |-> mode, wf |-> wf, cur |-> cur,
                  idx |-> idx, start |-> start, herr |-> herr, result |-> result,
                  exports |-> exports, todo |-> todo, call |-> call, alias |-> alias]
      /\ pc' = other.pc
      /\ runs' = other.runs
      /\ mode' = other.mode
      /\ wf' = other.wf
      /\ cur' = other.cur
      /\ idx' = other.idx
      /\ start' = other.start
      /\ herr' = other.herr
      /\ result' = other.result
      /\ exports' = other.exports
      /\ todo' = other.todo
      /\ call' = other.call
      /\ alias' = other.alias
      /\ UNCHANGED <<disk, now, nextId, done, tmp, mu>>

TriggerSpec == Init /\ [][Next \/ Switch]_vars

(***************************************************************************)
(* The engine's entry points called directly by a process that has opened  *)
(* the Store: RunWorkflow with a run id the Store holds, ContinueWorkflow  *)
(* with any run id, workflow and start index.  A call counts as one unit   *)
(* of work.                                                                *)
(***************************************************************************)
Api_RunWorkflow ==
  /\ pc = "down"
  /\ budget >= 1
  /\ budget' = budget - 1
  /\ \E runID \in DOMAIN load(disk), workflowName \in WorkflowNames :
       /\ cur' = runID
       /\ wf' = workflowName
  /\ pc' = "StartRun"
  /\ mode' = "api"
  /\ runs' = load(disk)
  /\ call' = NoCall
  /\ UNCHANGED <<disk, now, nextId, idx, start, herr, result, exports, todo, done>>
  /\ UNCHANGED <<alias, tmp, mu, peer>>

Api_ContinueWorkflow ==
  /\ pc = "down"
  /\ budget >= 1
  /\ budget' = budget - 1
  /\ \E runID \in 1..nextId, workflowName \in WorkflowNames,
        startIndex \in (-1)..MaxSteps :
       ContinueWorkflow(runID, workflowName, startIndex)
  /\ mode' = "api"
  /\ runs' = load(disk)
  /\ call' = NoCall
  /\ UNCHANGED <<disk, now, nextId, herr, exports, todo, done>>
  /\ UNCHANGED <<alias, tmp, mu, peer>>

\* The shipped program plus direct calls of RunWorkflow alone.

RunApiSpec == Init /\ [][Next \/ Api_RunWorkflow]_vars

ApiSpec == Init /\ [][Next \/ Api_RunWorkflow \/ Api_ContinueWorkflow]_vars

(***************************************************************************)
(* The Store called directly: a process opens the Store and calls its      *)
(* methods in any order with any arguments, exports the records and writes *)
(* to the records Export handed out.  Run ids are taken in order (nextId   *)
(* is the first id never started); a call counts as one unit of work, and  *)
(* StartRun as one more for every step of the run.  A slice index out of   *)
(* range panics and ends the process.                                      *)
(***************************************************************************)
Store_Open ==
  /\ pc = "down"
  /\ pc' = "open"
  /\ mode' = "store"
  /\ runs' = load(disk)
  /\ call' = NoCall
  /\ UNCHANGED <<disk, now, nextId, budget, wf, cur, idx, start, herr, result,
                 exports, todo, done, alias, tmp, mu, peer>>

StoreOp(op, runID, i, res, ok, t) ==
  /\ pc = "open"
  /\ budget >= 1 + (IF op = "StartRun" THEN i ELSE 0)
  /\ budget' = budget - (1 + (IF op = "StartRun" THEN i ELSE 0))
  /\ IF res.err = ErrPanic
     THEN t = now /\ ok /\ Down /\ UNCHANGED <<disk, now, done>>
     ELSE /\ StoreCall(res, ok, t)
          /\ call' = Call(op, runID, i, ErrOf(res, ok))
          /\ UNCHANGED <<pc, mode, wf, cur, idx, start, herr, result, exports, todo>>
  /\ UNCHANGED <<tmp, mu, peer>>

\* The indexes a caller passes for a run: those of its Steps slice and the
\* first one beyond it.
IndexArgs(m, runID) == IF runID \in DOMAIN m THEN 0..Len(m[runID].Steps) ELSE {0}

Store_StartRun ==
  \E runID \in 1..nextId, totalSteps \in 0..MaxSteps, t \in Times, ok \in BOOLEAN :
    /\ runID \in RunIds
    /\ StoreOp("StartRun", runID, totalSteps, StartRun(runs, runID, totalSteps, totalSteps, t), ok, t)
    /\ nextId' = IF runID = nextId THEN nextId + 1 ELSE nextId

Store_MarkStepPending ==
  \E runID \in 1..nextId, t \in Times, ok \in BOOLEAN :
   \E i \in IndexArgs(runs, runID) :
    /\ StoreOp("MarkStepPending", runID, i, MarkStepPending(runs, runID, i, StepID(i), t), ok, t)
    /\ UNCHANGED nextId

Store_MarkStepComplete ==
  \E runID \in 1..nextId, t \in Times, ok \in BOOLEAN :
   \E i \in IndexArgs(runs, runID) :
    /\ StoreOp("MarkStepComplete", runID, i, MarkStepComplete(runs, runID, i, t), ok, t)
    /\ UNCHANGED nextId

Store_MarkStepFailed ==
  \E runID \in 1..nextId, errMsg \in {ErrHandler, ErrOutput},
     t \in Times, ok \in BOOLEAN :
   \E i \in IndexArgs(runs, runID), order \in Orders(Terminals(runs, runID)) :
    /\ StoreOp("MarkStepFailed", runID, i, MarkStepFailed(runs, runID, i, errMsg, t, order), ok, t)
    /\ UNCHANGED nextId

Store_MarkPendingReboot ==
  \E runID \in 1..nextId, step \in RebootParams, t \in Times, ok \in BOOLEAN :
   \E nextStep \in IndexArgs(runs, runID) :
    /\ StoreOp("MarkPendingReboot", runID, nextStep,
               MarkPendingReboot(runs, runID, nextStep,
                                 IF step.SafeMode THEN "safe" ELSE "normal",
                                 step.ResumeDelaySeconds, t), ok, t)
    /\ UNCHANGED nextId

Store_ClearPendingReboot ==
  \E runID \in 1..nextId, t \in Times, ok \in BOOLEAN :
    /\ StoreOp("ClearPendingReboot", runID, 0, ClearPendingReboot(runs, runID, t), ok, t)
    /\ UNCHANGED nextId

Store_MarkRunCompleted ==
  \E runID \in 1..nextId, t \in Times, ok \in BOOLEAN :
   \E order \in Orders(Terminals(runs, runID)) :
    /\ StoreOp("MarkRunCompleted", runID, 0, MarkRunCompleted(runs, runID, t, order), ok, t)
    /\ UNCHANGED nextId

Store_Export ==
  /\ pc = "open"
  /\ budget >= 1
  /\ budget' = budget - 1
  /\ exports' = Export(runs)
  /\ alias' = ExportAlias(runs)
  /\ call' = Call("Export", 0, 0, NoErr)
  /\ UNCHANGED <<disk, now, nextId, pc, mode, runs, wf, cur, idx, start, herr, result,
                 todo, done, tmp, mu, peer>>

(***************************************************************************)
(* The caller writes to a record Export returned: to a scalar field, to an *)
(* element of its Steps slice, or to the int its PendingRebootNext points  *)
(* to.  The last is the Store's own int whenever the pointer was copied.   *)
(***************************************************************************)
CallerWrite(op, runID) ==
  /\ pc = "open"
  /\ budget >= 1
  /\ budget' = budget - 1
  /\ runID \in DOMAIN exports
  /\ call' = Call(op, runID, 0, NoErr)
  /\ UNCHANGED <<disk, now, nextId, pc, mode, wf, cur, idx, start, herr, result,
                 todo, done, alias, tmp, mu, peer>>

Caller_WriteField ==
  \E runID \in DOMAIN exports :
    /\ CallerWrite("write field", runID)
    /\ exports' = [exports EXCEPT ![runID].Status = StatusCompleted,
                                  ![runID].CurrentStepIndex = MaxSteps]
    /\ runs' = runs

Caller_WriteStep ==
  \E runID \in DOMAIN exports :
    /\ CallerWrite("write step", runID)
    /\ Len(exports[runID].Steps) >= 1
    /\ exports' = [exports EXCEPT ![runID].Steps[1].Status = StatusFailed]
    /\ runs' = runs

Caller_WriteNext ==
  \E runID \in DOMAIN exports, v \in 0..1 :
    /\ CallerWrite("write next", runID)
    /\ exports[runID].PendingRebootNext # Nil
    /\ exports' = [exports EXCEPT ![runID].PendingRebootNext = v]
    /\ runs' = IF runID \in alias
               THEN [runs EXCEPT ![runID].PendingRebootNext = v]
               ELSE runs

StoreSpec ==
  Init /\ [][
    \/ Store_Open
    \/ Store_StartRun
    \/ Store_MarkStepPending
    \/ Store_MarkStepComplete
    \/ Store_MarkStepFailed
    \/ Store_MarkPendingReboot
    \/ Store_ClearPendingReboot
    \/ Store_MarkRunCompleted
    \/ Store_Export
    \/ Caller_WriteField
    \/ Caller_WriteStep
    \/ Caller_WriteNext
  ]_vars

(***************************************************************************)
(* A process that has opened the Store and built a Runner on it calls the  *)
(* methods of the Store and Runner.ContinueWorkflow, with any run id, any  *)
(* workflow and any start index.  ContinueWorkflow counts as one unit of   *)
(* work plus one for each step of the workflow.                            *)
(***************************************************************************)
Store_ContinueWorkflow ==
  /\ pc = "open"
  /\ \E runID \in 1..nextId, workflowName \in WorkflowNames :
      \E startIndex \in (-1)..NumSteps(workflowName) :
       /\ budget >= 1 + NumSteps(workflowName)
       /\ budget' = budget - (1 + NumSteps(workflowName))
       /\ ContinueWorkflow(runID, workflowName, startIndex)
  /\ call' = NoCall
  /\ herr' = NoErr
  /\ UNCHANGED <<disk, now, nextId, mode, runs, exports, todo, done, alias, tmp, mu, peer>>

\* ContinueWorkflow has returned to the caller, who goes on.
Store_Returned ==
  /\ pc = "returned"
  /\ mode = "store"
  /\ pc' = "open"
  /\ UNCHANGED <<disk, now, nextId, budget, mode, runs, wf, cur, idx, start, herr, result,
                 exports, todo, call, done, alias, tmp, mu, peer>>

CallSpec ==
  Init /\ [][
    \/ Store_Open
    \/ Store_StartRun
    \/ Store_MarkStepPending
    \/ Store_MarkStepComplete
    \/ Store_MarkStepFailed
    \/ Store_MarkPendingReboot
    \/ Store_ClearPendingReboot
    \/ Store_MarkRunCompleted
    \/ Store_ContinueWorkflow
    \/ Store_Returned
    \/ ContinueWorkflow_ClearPendingReboot
    \/ runFromIndex_MarkStepPending
    \/ runFromIndex_MarkRunCompleted
    \/ execStep
    \/ handleReboot_MarkPendingReboot
    \/ handleReboot_RequestReboot
    \/ runFromIndex_Rebooting
    \/ runFromIndex_MarkStepFailed
    \/ runFromIndex_MarkStepComplete
  ]_vars

(***************************************************************************)
(* The `run` command together with direct calls of ContinueWorkflow (any   *)
(* run id, workflow and start index) by processes that open the Store,     *)
(* call it once and exit.                                                  *)
(***************************************************************************)
ContinueSpec ==
  Init /\ [][
    \/ runWorkflowOnce
    \/ RunWorkflow
    \/ Api_ContinueWorkflow
    \/ ContinueWorkflow_ClearPendingReboot
    \/ runFromIndex_MarkStepPending
    \/ runFromIndex_MarkRunCompleted
    \/ execStep
    \/ handleReboot_MarkPendingReboot
    \/ handleReboot_RequestReboot
    \/ runFromIndex_Rebooting
    \/ runFromIndex_MarkStepFailed
    \/ runFromIndex_MarkStepComplete
    \/ Exit
  ]_vars

(***************************************************************************)
(* Two goroutines of one process on one Store.  One calls the mutating     *)
(* methods, which run statement by statement: s.mu.Lock(), the lookup, the *)
(* assignments to the record in the order of the source, pruning,          *)
(* persistLocked, and the deferred s.mu.Unlock() at the return.  The other *)
(* calls Export: Lock, the copy of the map, Unlock.  An index out of range *)
(* panics at the assignment to rec.Steps[stepIndex]: the deferred Unlock   *)
(* runs and the process ends.  pc is the position of the first goroutine,  *)
(* idx the number of assignments its method has made.                      *)
(***************************************************************************)
\* The methods of the Store that change the map.
Mutating == {"StartRun", "MarkStepPending", "MarkStepComplete", "MarkStepFailed",
             "MarkPendingReboot", "ClearPendingReboot", "MarkRunCompleted"}

\* s.mu.Lock() that never blocks.
CanLock_Always == TRUE

CanLock == mu = "free"

Assigns(op) ==
  CASE op = "StartRun"           -> <<"record">>
    [] op = "MarkStepPending"    -> <<"Status", "CurrentStepIndex", "UpdatedAt", "Steps">>
    [] op = "MarkStepComplete"   -> <<"Steps", "CurrentStepIndex", "UpdatedAt">>
    [] op = "MarkStepFailed"     -> <<"Steps", "Status", "LastError", "UpdatedAt">>
    [] op = "MarkPendingReboot"  -> <<"Status", "PendingRebootNext", "PendingBootMode",
                                      "ResumeDelaySeconds", "UpdatedAt">>
    [] op = "ClearPendingReboot" -> <<"Status", "PendingRebootNext", "PendingBootMode",
                                      "ResumeDelaySeconds", "UpdatedAt">>
    [] op = "MarkRunCompleted"   -> <<"Status", "UpdatedAt">>

\* The record of runID as the method makes it, before pruning.
Assigned(op, rec, runID, i, t) ==
  LET m == [k \in {runID} |-> rec]
  IN CASE op = "MarkStepPending"    -> MarkStepPending(m, runID, i, StepID(i), t).runs[runID]
       [] op = "MarkStepComplete"   -> MarkStepComplete(m, runID, i, t).runs[runID]
       [] op = "MarkStepFailed"     ->
            MarkStepFailed(m, runID, i, ErrHandler, t, <<runID>>).runs[runID]
       [] op = "MarkPendingReboot"  ->
            MarkPendingReboot(m, runID, i, "safe", 1, t).runs[runID]
       [] op = "ClearPendingReboot" -> ClearPendingReboot(m, runID, t).runs[runID]
       [] op = "MarkRunCompleted"   -> MarkRunCompleted(m, runID, t, <<runID>>).runs[runID]

\* The lookup at the head of the method fails.
Refused(op, m, runID) ==
  IF op = "StartRun" THEN runID \in DOMAIN m ELSE runID \notin DOMAIN m

Lock_Call ==
  /\ pc = "open"
  /\ CanLock
  /\ \E op \in Mutating, runID \in 1..nextId, t \in {now, now + 1} :
      \E i \in CASE op = "StartRun" -> 0..MaxSteps
                 [] op \in {"ClearPendingReboot", "MarkRunCompleted"} -> {0}
                 [] OTHER -> IndexArgs(runs, runID) :
       /\ runID \in RunIds
       /\ t \in Times
       /\ budget >= 1 + (IF op = "StartRun" THEN i ELSE 0)
       /\ budget' = budget - (1 + (IF op = "StartRun" THEN i ELSE 0))
       /\ call' = Call(op, runID, i, NoErr)
       /\ now' = t
       /\ nextId' = IF op = "StartRun" /\ runID = nextId THEN nextId + 1 ELSE nextId
  /\ mu' = "mutator"
  /\ pc' = "locked"
  /\ idx' = 0
  /\ UNCHANGED <<disk, mode, runs, wf, cur, start, herr, result, exports, todo, done,
                 alias, tmp, peer>>

Lock_Refused ==
  /\ pc = "locked"
  /\ Refused(call.op, runs, call.run)
  /\ call' = [call EXCEPT !.err = IF call.op = "StartRun" THEN ErrExists ELSE ErrNotFound]
  /\ mu' = "free"
  /\ pc' = "open"
  /\ UNCHANGED <<disk, now, nextId, budget, mode, runs, wf, cur, idx, start, herr, result,
                 exports, todo, done, alias, tmp, peer>>

Lock_Assign ==
  /\ pc = "locked"
  /\ ~Refused(call.op, runs, call.run)
  /\ idx < Len(Assigns(call.op))
  /\ LET f == Assigns(call.op)[idx + 1]
     IN IF f = "record"
        THEN /\ runs' = StartRun(runs, call.run, call.idx, call.idx, now).runs
             /\ idx' = idx + 1
             /\ UNCHANGED <<pc, mu, alias>>
        ELSE IF f = "Steps" /\ ~InRange(runs[call.run], call.idx)
        THEN /\ pc' = "panicking"
             /\ mu' = "free"
             /\ UNCHANGED <<runs, idx, alias>>
        ELSE /\ runs' = [runs EXCEPT ![call.run][f] =
                           Assigned(call.op, runs[call.run], call.run, call.idx, now)[f]]
             /\ idx' = idx + 1
             /\ alias' = IF f = "PendingRebootNext" THEN alias \ {call.run} ELSE alias
             /\ UNCHANGED <<pc, mu>>
  /\ UNCHANGED <<disk, now, nextId, budget, mode, wf, cur, start, herr, result, exports,
                 todo, call, done, tmp, peer>>

Lock_Prune ==
  /\ pc = "locked"
  /\ ~Refused(call.op, runs, call.run)
  /\ idx = Len(Assigns(call.op))
  /\ call.op \in {"MarkStepFailed", "MarkRunCompleted"}
  /\ \E order \in Orders(Terminals(runs, call.run)) :
       runs' = pruneHistoryLocked(runs, order)
  /\ alias' = alias \cap DOMAIN runs'
  /\ pc' = "persist"
  /\ UNCHANGED <<disk, now, nextId, budget, mode, wf, cur, idx, start, herr, result,
                 exports, todo, call, done, tmp, mu, peer>>

Lock_Persist ==
  /\ \/ pc = "persist"
     \/ /\ pc = "locked"
        /\ ~Refused(call.op, runs, call.run)
        /\ idx = Len(Assigns(call.op))
        /\ call.op \notin {"MarkStepFailed", "MarkRunCompleted"}
  /\ \E ok \in BOOLEAN :
       /\ disk' = persistLocked(runs, disk, ok).file
       /\ call' = [call EXCEPT !.err = persistLocked(runs, disk, ok).err]
       /\ done' = IF ok THEN done \cup CompletedOn(disk') ELSE done
  /\ mu' = "free"
  /\ pc' = "open"
  /\ UNCHANGED <<now, nextId, budget, mode, runs, wf, cur, idx, start, herr, result,
                 exports, todo, alias, tmp, peer>>

Lock_Exit ==
  /\ pc = "panicking"
  /\ Down
  /\ mu' = "free"
  /\ UNCHANGED <<disk, now, nextId, budget, done, tmp, peer>>

Export_Lock ==
  /\ pc \in {"open", "locked", "persist", "panicking"}
  /\ CanLock
  /\ budget >= 1
  /\ budget' = budget - 1
  /\ mu' = "exporter"
  /\ UNCHANGED <<disk, now, nextId, pc, mode, runs, wf, cur, idx, start, herr, result,
                 exports, todo, call, done, alias, tmp, peer>>

Export_Return ==
  /\ mu = "exporter"
  /\ pc # "down"
  /\ exports' = Export(runs)
  /\ alias' = ExportAlias(runs)
  /\ mu' = "free"
  /\ UNCHANGED <<disk, now, nextId, budget, pc, mode, runs, wf, cur, idx, start, herr,
                 result, todo, call, done, tmp, peer>>

LockSpec ==
  Init /\ [][
    \/ Store_Open
    \/ Lock_Call
    \/ Lock_Refused
    \/ Lock_Assign
    \/ Lock_Prune
    \/ Lock_Persist
    \/ Lock_Exit
    \/ Export_Lock
    \/ Export_Return
  ]_vars

(***************************************************************************)
(* pruneHistoryLocked as a function of the map it is called on.  The map   *)
(* is any map of records keyed by run ids a caller of StartRun can pass    *)
(* (the empty string among them: StartRun does not look at the id), each   *)
(* with any run status and any time of last update; the range loops meet   *)
(* the keys in any order.  exports keeps the map as it was before.         *)
(***************************************************************************)

RunRecord(runID, st, t) == [StartRun(<<>>, runID, 0, 0, t).runs[runID] EXCEPT !.Status = st]

PruneInit ==
  /\ disk = NoFile /\ tmp = NoFile /\ mu = "free" /\ peer = NoPeer
  /\ now = 0 /\ nextId = 1 /\ budget = MaxWork
  /\ pc = "open" /\ mode = "store"
  /\ wf = 0 /\ cur = 0 /\ idx = 0 /\ start = 0
  /\ herr = NoErr /\ result = NoErr /\ call = NoCall
  /\ exports = <<>> /\ todo = {} /\ done = {} /\ alias = {}
  /\ \E K \in SUBSET ({NoKey} \cup 1..(MaxRuns - 2)) :
       \E st \in [K -> {StatusRunning, StatusPendingReboot, StatusCompleted, StatusFailed}],
          t \in [K -> Times] :
          runs = [k \in K |-> RunRecord(k, st[k], t[k])]

Prune ==
  /\ pc = "open"
  /\ pc' = "pruned"
  /\ \E order \in Orders(DOMAIN runs) :
       runs' = pruneHistoryLocked(runs, order)
  /\ exports' = runs
  /\ UNCHANGED <<disk, now, nextId, budget, mode, wf, cur, idx, start, herr, result,
                 call, todo, done, alias, tmp, mu, peer>>

PruneSpec == PruneInit /\ [][Prune]_vars

(***************************************************************************)
(* persistLocked step by step, for what a crash of the process leaves      *)
(* behind.  A method of the Store has changed the map and calls            *)
(* persistLocked: MkdirAll, MarshalIndent, WriteFile on the temporary      *)
(* name (create or truncate, then the bytes), Rename over the state file.  *)
(* Each call can fail and return its error; the process can end between    *)
(* any two of them, and the files stay as they are.  A file WriteFile has  *)
(* not finished holds a proper prefix of the data (cut = 0: no byte yet).  *)
(***************************************************************************)
Cut(c, n) == [present |-> TRUE, content |-> c, cut |-> n]

Whole(file) == DOMAIN file = {"present", "content"}

\* WriteFile straight to the state file.
TmpName_Path == "path"

TmpName == "tmp"

FS == [path |-> disk, tmp |-> tmp]

WriteFile(fs, name, file) == [fs EXCEPT ![name] = file]

Rename(fs, old, new) ==
  IF old = new THEN fs ELSE [[fs EXCEPT ![new] = fs[old]] EXCEPT ![old] = NoFile]

SetFS(fs) == disk' = fs.path /\ tmp' = fs.tmp

PersistPcs == {"MkdirAll", "WriteFile", "Write", "Rename"}

Persist_Open ==
  /\ Whole(disk)
  /\ Store_Open

Persist_Call ==
  /\ pc = "open"
  /\ budget >= 1
  /\ budget' = budget - 1
  /\ \E t \in {now, now + 1} \cap Times :
       /\ now' = t
       /\ \/ \E totalSteps \in 0..1 :
               /\ nextId \in RunIds
               /\ runs' = StartRun(runs, nextId, totalSteps, totalSteps, t).runs
               /\ nextId' = nextId + 1
               /\ call' = Call("StartRun", nextId, totalSteps, NoErr)
          \/ \E runID \in DOMAIN runs : \E order \in Orders(Terminals(runs, runID)) :
               /\ runs' = MarkRunCompleted(runs, runID, t, order).runs
               /\ nextId' = nextId
               /\ call' = Call("MarkRunCompleted", runID, 0, NoErr)
  /\ pc' = "MkdirAll"
  /\ UNCHANGED <<mu, peer, disk, tmp, mode, wf, cur, idx, start, herr, result, exports, todo,
                 done, alias>>

PersistStep(from, to, fs) ==
  /\ pc = from
  /\ pc' = to
  /\ SetFS(fs)
  /\ UNCHANGED <<now, nextId, budget, mode, runs, wf, cur, idx, start, herr, result,
                 exports, todo, call, done, alias, mu, peer>>

Persist_MkdirAll == PersistStep("MkdirAll", "WriteFile", FS)

Persist_WriteFile_Create ==
  PersistStep("WriteFile", "Write", WriteFile(FS, TmpName, Cut(Marshal(runs), 0)))

Persist_WriteFile_Part ==
  /\ FS[TmpName] = Cut(Marshal(runs), 0)
  /\ PersistStep("Write", "Write", WriteFile(FS, TmpName, Cut(Marshal(runs), 1)))

Persist_WriteFile_Rest ==
  PersistStep("Write", "Rename", WriteFile(FS, TmpName, File(Marshal(runs))))

Persist_Rename ==
  PersistStep("Rename", "open", Rename(FS, TmpName, "path"))

Persist_Fail ==
  /\ pc \in PersistPcs
  /\ pc' = "open"
  /\ call' = [call EXCEPT !.err = ErrIO]
  /\ UNCHANGED <<mu, peer, disk, tmp, now, nextId, budget, mode, runs, wf, cur, idx, start, herr,
                 result, exports, todo, done, alias>>

Persist_Crash ==
  /\ pc \in PersistPcs \cup {"open"}
  /\ Down
  /\ UNCHANGED <<mu, peer, disk, tmp, now, nextId, budget, done>>

PersistSpec ==
  Init /\ [][
    \/ Persist_Open
    \/ Persist_Call
    \/ Persist_MkdirAll
    \/ Persist_WriteFile_Create
    \/ Persist_WriteFile_Part
    \/ Persist_WriteFile_Rest
    \/ Persist_Rename
    \/ Persist_Fail
    \/ Persist_Crash
  ]_vars

(***************************************************************************)
(* Two processes on one state file.  Each has opened the store (its own    *)
(* Store.runs, its own mutex) and calls StartRun; persistLocked of both    *)
(* writes the same temporary name, path + ".tmp".  os.WriteFile opens the  *)
(* name with O_CREATE|O_TRUNC and writes from offset 0 of its own handle;  *)
(* the data goes out in two halves here.  A file that is not the data of   *)
(* one WriteFile call is Torn: for each half, no byte (<<>>) or the bytes   *)
(* of one snapshot (<<c>>).  Rename fails while the other process has the  *)
(* temporary file open for writing (sharing violation) or when the name is *)
(* gone; otherwise it moves the file over the state file.                  *)
(***************************************************************************)

ProcPc(p) == IF p = "first" THEN pc ELSE peer.pc

ProcRuns(p) == IF p = "first" THEN runs ELSE peer.runs

SetProc(p, newPc, newRuns) ==
  IF p = "first"
  THEN pc' = newPc /\ runs' = newRuns /\ peer' = peer
  ELSE peer' = [pc |-> newPc, runs |-> newRuns] /\ pc' = pc /\ runs' = runs

Torn(h) == [present |-> TRUE, halves |-> h]

WriteAt(file, k, c) ==
  LET halves == IF Whole(file) THEN <<<<file.content>>, <<file.content>>>> ELSE file.halves
      h      == [halves EXCEPT ![k] = <<c>>]
  IN  IF h[1] = h[2] THEN File(c) ELSE Torn(h)

Race_Open(p) ==
  /\ ProcPc(p) = "down"
  /\ Whole(disk)
  /\ SetProc(p, "open", load(disk))
  /\ mode' = "store"
  /\ UNCHANGED <<disk, now, nextId, budget, wf, cur, idx, start, herr, result,
                 exports, todo, call, done, alias, tmp, mu>>

Race_StartRun(p) ==
  /\ ProcPc(p) = "open"
  /\ budget >= 1
  /\ budget' = budget - 1
  /\ nextId \in RunIds
  /\ nextId' = nextId + 1
  /\ \E t \in {now, now + 1} \cap Times :
       /\ now' = t
       /\ SetProc(p, "WriteFile", StartRun(ProcRuns(p), nextId, 0, 0, t).runs)
  /\ call' = Call("StartRun", nextId, 0, NoErr)
  /\ UNCHANGED <<disk, mode, wf, cur, idx, start, herr, result, exports, todo,
                 done, alias, tmp, mu>>

RaceStep(p, from, to, fs) ==
  /\ ProcPc(p) = from
  /\ SetProc(p, to, ProcRuns(p))
  /\ SetFS(fs)
  /\ UNCHANGED <<now, nextId, budget, mode, wf, cur, idx, start, herr, result,
                 exports, todo, done, alias, mu>>

Race_WriteFile_Create(p) ==
  /\ RaceStep(p, "WriteFile", "Write", WriteFile(FS, TmpName, Torn(<<<<>>, <<>>>>)))
  /\ call' = call

Race_WriteFile_Part(p) ==
  /\ RaceStep(p, "Write", "WriteRest",
              WriteFile(FS, TmpName, WriteAt(FS[TmpName], 1, Marshal(ProcRuns(p)))))
  /\ call' = call

Race_WriteFile_Rest(p) ==
  /\ RaceStep(p, "WriteRest", "Rename",
              WriteFile(FS, TmpName, WriteAt(FS[TmpName], 2, Marshal(ProcRuns(p)))))
  /\ call' = call

Race_Rename(p) ==
  IF FS[TmpName].present /\ ProcPc(IF p = "first" THEN "second" ELSE "first") \notin {"Write", "WriteRest"}
  THEN /\ RaceStep(p, "Rename", "open", Rename(FS, TmpName, "path"))
       /\ call' = call
  ELSE /\ RaceStep(p, "Rename", "open", FS)
       /\ call' = [call EXCEPT !.err = ErrIO]

RaceSpec ==
  Init /\ [][
    \E p \in {"first", "second"} :
      \/ Race_Open(p)
      \/ Race_StartRun(p)
      \/ Race_WriteFile_Create(p)
      \/ Race_WriteFile_Part(p)
      \/ Race_WriteFile_Rest(p)
      \/ Race_Rename(p)
  ]_vars

(***************************************************************************)
(* Pure functions of the runner.  A Go string is the sequence of its       *)
(* characters.  The argument of the call is in call.arg, what the function *)
(* returned in result.                                                     *)
(***************************************************************************)
ToLower(str) ==
  LET Lower == [A |-> "a", D |-> "d", E |-> "e", F |-> "f", G |-> "g", I |-> "i",
                L |-> "l", N |-> "n", O |-> "o", R |-> "r", S |-> "s", T |-> "t",
                U |-> "u", W |-> "w", Y |-> "y", Z |-> "z"]
  IN  [i \in 1..Len(str) |-> IF str[i] \in DOMAIN Lower THEN Lower[str[i]] ELSE str[i]]

WhiteSpace == {" ", "\t", "\n", "\r"}

RECURSIVE TrimLeft(_)
TrimLeft(str) ==
  IF str # <<>> /\ Head(str) \in WhiteSpace THEN TrimLeft(Tail(str)) ELSE str

RECURSIVE TrimRight(_)
TrimRight(str) ==
  IF str # <<>> /\ str[Len(str)] \in WhiteSpace
  THEN TrimRight(SubSeq(str, 1, Len(str) - 1))
  ELSE str

BoolResult(b, e) == [bool |-> b, err |-> e]

expectedBool(v) ==
  IF v.type = "nil" THEN BoolResult(TRUE, NoErr)
  ELSE CASE v.type = "bool" -> BoolResult(v.val, NoErr)
         [] v.type = "string" ->
              LET t == ToLower(TrimRight(TrimLeft(v.val)))
              IN  IF t \in {<<"t", "r", "u", "e">>, <<"1">>, <<"y", "e", "s">>, <<"o", "n">>}
                  THEN BoolResult(TRUE, NoErr)
                  ELSE IF t \in {<<"f", "a", "l", "s", "e">>, <<"0">>, <<"n", "o">>,
                                 <<"o", "f", "f">>}
                  THEN BoolResult(FALSE, NoErr)
                  ELSE BoolResult(FALSE, ErrHandler)
         [] v.type \in {"int", "int64", "float64"} -> BoolResult(v.val # 0, NoErr)
         [] OTHER -> BoolResult(FALSE, ErrHandler)

\* The values of step.Expected tried: what yaml.v3 and encoding/json decode
\* into an any (nil, bool, string, int, int64, uint64 for an integer above
\* the int64 range, float64, a list, a map) around the accepted words.
LooseWords ==
  [true |->
     {<<"t", "r", "u", "e">>,
      <<"T", "R", "U", "E">>,
      <<"T", "r", "u", "e">>,
      <<"1">>,
      <<"y", "e", "s">>,
      <<"Y", "E", "S">>,
      <<"o", "n">>,
      <<"o", "N">>},
   false |->
     {<<"f", "a", "l", "s", "e">>,
      <<"F", "A", "L", "S", "E">>,
      <<"F", "a", "l", "s", "e">>,
      <<"0">>,
      <<"n", "o">>,
      <<"N", "o">>,
      <<"o", "f", "f">>,
      <<"O", "F", "F">>},
   other |->
     {<<"m", "a", "y", "b", "e">>,
      <<>>,
      <<"2">>,
      <<"y">>,
      <<"t", " ", "r", "u", "e">>,
      <<"0", "0">>,
      <<"t", "r", "u", "e", "e">>,
      <<"n", "i", "l">>}]

Padded(words) ==
  LET Pads == {<<>>, <<" ">>, <<"\t">>, <<"\n", " ">>}
  IN  {pre \o w \o post : pre \in Pads, post \in Pads, w \in words}

LooseValues ==
  {[type |-> "nil", val |-> 0], [type |-> "bool", val |-> TRUE],
   [type |-> "bool", val |-> FALSE], [type |-> "list", val |-> <<>>],
   [type |-> "list", val |-> <<TRUE>>], [type |-> "map", val |-> <<>>]}
    \cup {[type |-> "string", val |-> str] :
             str \in Padded(LooseWords.true \cup LooseWords.false \cup LooseWords.other)}
    \cup {[type |-> type, val |-> n] : type \in {"int", "int64", "float64"}, n \in (-1)..1}
    \cup {[type |-> "uint64", val |-> n] : n \in 0..1}

FuncInit(op, args) ==
  /\ disk = NoFile /\ tmp = NoFile /\ mu = "free" /\ peer = NoPeer
  /\ now = 0 /\ nextId = 1 /\ budget = MaxWork
  /\ pc = "call" /\ mode = "none"
  /\ wf = 0 /\ cur = 0 /\ idx = 0 /\ start = 0
  /\ herr = NoErr /\ result = NoErr
  /\ exports = <<>> /\ todo = {} /\ done = {} /\ alias = {} /\ runs = <<>>
  /\ \E v \in args : call = [op |-> op, arg |-> v]

FuncCall(op, ret) ==
  /\ pc = "call"
  /\ call.op = op
  /\ pc' = "returned"
  /\ result' = ret
  /\ UNCHANGED <<disk, now, nextId, budget, mode, runs, wf, cur, idx, start, herr,
                 exports, todo, call, done, alias, tmp, mu, peer>>

handleDriverLoaded_expectedBool == FuncCall("expectedBool", expectedBool(call.arg))

BoolSpec == FuncInit("expectedBool", LooseValues) /\ [][handleDriverLoaded_expectedBool]_vars

(***************************************************************************)
(* searchRoot, with filepath.Clean and filepath.Dir as the Windows build   *)
(* has them: a drive letter and colon are the volume name (UNC names are   *)
(* not among the patterns tried), both slashes separate, Clean writes the  *)
(* separator as a backslash, drops empty and "." elements and resolves     *)
(* "..", and an empty result is ".".                                       *)
(***************************************************************************)
Separator == "\\"

IsPathSeparator(c) == c = "\\" \/ c = "/"

VolumeLen(path) ==
  IF Len(path) >= 2 /\ path[2] = ":" /\ path[1] \in {"C", "D", "c"} THEN 2 ELSE 0

RECURSIVE Elements(_, _)
Elements(str, elem) ==
  IF str = <<>> THEN (IF elem = <<>> THEN <<>> ELSE <<elem>>)
  ELSE IF IsPathSeparator(Head(str))
       THEN (IF elem = <<>> THEN <<>> ELSE <<elem>>) \o Elements(Tail(str), <<>>)
       ELSE Elements(Tail(str), Append(elem, Head(str)))

RECURSIVE Resolve(_, _, _)
Resolve(elems, out, rooted) ==
  IF elems = <<>> THEN out
  ELSE LET e == Head(elems)
       IN  Resolve(Tail(elems),
                   IF e = <<".">> THEN out
                   ELSE IF e = <<".", ".">>
                        THEN IF out # <<>> /\ out[Len(out)] # <<".", ".">>
                             THEN SubSeq(out, 1, Len(out) - 1)
                             ELSE IF rooted THEN out ELSE Append(out, e)
                        ELSE Append(out, e),
                   rooted)

RECURSIVE Join(_)
Join(elems) ==
  IF elems = <<>> THEN <<>>
  ELSE IF Len(elems) = 1 THEN elems[1]
       ELSE elems[1] \o <<Separator>> \o Join(Tail(elems))

Clean(path) ==
  LET n      == VolumeLen(path)
      rest   == SubSeq(path, n + 1, Len(path))
      rooted == rest # <<>> /\ IsPathSeparator(rest[1])
      body   == Join(Resolve(Elements(rest, <<>>), <<>>, rooted))
  IN  SubSeq(path, 1, n)
        \o (IF rooted THEN <<Separator>> ELSE <<>>)
        \o (IF ~rooted /\ body = <<>> THEN <<".">> ELSE body)

Dir(path) ==
  LET n    == VolumeLen(path)
      seps == {k \in (n + 1)..Len(path) : IsPathSeparator(path[k])}
      i    == IF seps = {} THEN n ELSE CHOOSE k \in seps : \A j \in seps : j <= k
  IN  SubSeq(path, 1, n) \o Clean(SubSeq(path, n + 1, i))

Meta == {"*", "+", "?", "[", "]", "(", ")", "{", "}", "|", "^", "$"}

searchRoot(pattern) ==
  LET cleaned   == Clean(pattern)
      at        == {i \in 1..Len(cleaned) : cleaned[i] # Separator /\ cleaned[i] \in Meta}
      firstMeta == IF at = {} THEN 0 ELSE CHOOSE i \in at : \A j \in at : i <= j
  IN  IF firstMeta = 0 THEN Dir(cleaned)
      ELSE LET prefix == SubSeq(cleaned, 1, firstMeta - 1)
           IN  IF prefix = <<>> THEN <<Separator>> ELSE Dir(prefix)

\* The patterns tried: volume, root, directories, last part.
Patterns ==
  LET Volumes == {<<>>, <<"C", ":">>}
      Roots   == {<<>>, <<"\\">>}
      Dirs    ==
        {<<>>,
         <<"D", "r", "i", "v", "e", "r", "s", "\\">>,
         <<"a", "\\", ".", "\\">>,
         <<"a", "\\", ".", ".", "\\">>,
         <<"D", "r", "i", "v", "e", "r", "s", "/", "b", "\\", "\\">>}
      Lasts   ==
        {<<".", "*", "\\", ".", "s", "y", "s">>,
         <<"*", ".", "l", "o", "g">>,
         <<"f", "o", "o">>,
         <<"f", "+">>,
         <<"x", ".", "l", "o", "g">>,
         <<"(", "a", ")">>,
         <<"^", "a", "$">>}
  IN  {v \o r \o d \o l : v \in Volumes, r \in Roots, d \in Dirs, l \in Lasts} \ {<<>>}

matchPaths_searchRoot ==
  FuncCall("searchRoot",
           IF searchRoot(call.arg) = <<>> THEN <<".">> ELSE searchRoot(call.arg))

RootSpec == FuncInit("searchRoot", Patterns) /\ [][matchPaths_searchRoot]_vars

(***************************************************************************)
(* registry_set.  What the handler returns is its error together with the  *)
(* calls it made to the registry, in order: the side effects of the step.  *)
(* createOk and setOk are whether the registry lets the key be created and *)
(* the value be written.                                                   *)
(***************************************************************************)
RECURSIVE Split(_, _)
Split(str, sep) ==
  IF \E i \in 1..Len(str) : str[i] = sep
  THEN LET i == CHOOSE k \in 1..Len(str) : str[k] = sep /\ \A j \in 1..(k - 1) : str[j] # sep
       IN  <<SubSeq(str, 1, i - 1)>> \o Split(SubSeq(str, i + 1, Len(str)), sep)
  ELSE <<str>>

splitRegistryPath(full) ==
  LET parts == Split(full, "\\")
      Upper == [h |-> "H", k |-> "K", l |-> "L", m |-> "M", c |-> "C", u |-> "U",
                r |-> "R"]
      rootStr == [i \in 1..Len(parts[1]) |->
                    IF parts[1][i] \in DOMAIN Upper THEN Upper[parts[1][i]] ELSE parts[1][i]]
      empty == [root |-> <<>>, subkey |-> <<>>, name |-> <<>>]
  IN  IF Len(parts) < 2
      THEN empty @@ [err |-> <<"invalid registry path">>]
      ELSE IF rootStr \notin {<<"H", "K", "L", "M">>, <<"H", "K", "C", "U">>,
                              <<"H", "K", "C", "R">>, <<"H", "K", "U">>}
      THEN empty @@ [err |-> <<"unsupported root">>]
      ELSE IF Len(parts) < 3
      THEN empty @@ [err |-> <<"registry path must include value name">>]
      ELSE [root |-> rootStr, subkey |-> SubSeq(parts, 2, Len(parts) - 1),
            name |-> parts[Len(parts)], err |-> NoErr]

\* fmt.Sscanf(t, "%d", &parsed) with a uint32: blanks are skipped, no sign
\* is read, the digits that follow are the number and what comes after them
\* is left unread.  The numbers tried are below 2^31, where the conversions
\* to uint32 keep the value and the scan does not overflow.
toUint32(v) ==
  LET Digit == [i \in 0..9 |-> <<"0", "1", "2", "3", "4", "5", "6", "7", "8", "9">>[i + 1]]
      IsDigit(c) == \E d \in 0..9 : Digit[d] = c
      Value(c) == CHOOSE d \in 0..9 : Digit[d] = c
      RECURSIVE Skip(_)
      Skip(str) == IF str # <<>> /\ Head(str) \in {" ", "\t", "\r"} THEN Skip(Tail(str)) ELSE str
      RECURSIVE Scan(_, _)
      Scan(str, n) ==
        IF str # <<>> /\ IsDigit(Head(str)) THEN Scan(Tail(str), 10 * n + Value(Head(str))) ELSE n
  IN  CASE v.type = "uint32" -> [val |-> v.val, err |-> NoErr]
        [] v.type \in {"int", "int64", "float64"} ->
             IF v.val < 0
             THEN [val |-> 0, err |-> <<"negative dword not allowed">>]
             ELSE [val |-> v.val, err |-> NoErr]
        [] v.type = "string" ->
             LET t == Skip(v.val)
             IN  IF t = <<>> THEN [val |-> 0, err |-> <<"unexpected EOF">>]
                 ELSE IF ~IsDigit(Head(t)) THEN [val |-> 0, err |-> <<"expected integer">>]
                 ELSE [val |-> Scan(t, 0), err |-> NoErr]
        [] OTHER -> [val |-> 0, err |-> <<"cannot convert to dword">>]

RegistrySet(path, valueType, value, createOk, setOk) ==
  LET p == splitRegistryPath(path)
      set(op) == IF setOk
                 THEN [err |-> NoErr, calls |-> <<"CreateKey", op, "Close">>]
                 ELSE [err |-> <<"registry: access denied">>,
                       calls |-> <<"CreateKey", op, "Close">>]
  IN  IF p.err # NoErr THEN [err |-> p.err, calls |-> <<>>]
      ELSE IF ~createOk
      THEN [err |-> <<"registry: access denied">>, calls |-> <<"CreateKey">>]
      ELSE IF ToLower(valueType) \in {<<"s", "t", "r", "i", "n", "g">>, <<"s", "z">>}
      THEN set("SetStringValue")
      ELSE IF ToLower(valueType) = <<"d", "w", "o", "r", "d">>
      THEN IF toUint32(value).err # NoErr
           THEN [err |-> toUint32(value).err, calls |-> <<"CreateKey", "Close">>]
           ELSE set("SetDWordValue")
      ELSE [err |-> <<"unsupported registry value type">>, calls |-> <<"CreateKey", "Close">>]

handleRegistrySet ==
  /\ pc = "call"
  /\ call.op = "registry_set"
  /\ pc' = "returned"
  /\ \E createOk \in BOOLEAN, setOk \in BOOLEAN :
       result' = IF call.arg.Path = <<>> \/ call.arg.Type = <<>>
                 THEN [err |-> <<"registry_set requires path and type">>, calls |-> <<>>]
                 ELSE RegistrySet(call.arg.Path, call.arg.Type, call.arg.Value,
                                  createOk, setOk)
  /\ UNCHANGED <<disk, now, nextId, budget, mode, runs, wf, cur, idx, start, herr,
                 exports, todo, call, done, alias, tmp, mu, peer>>

\* The registry_set steps tried: paths with no, one and several separators,
\* known and unknown roots in either case, the value types in either case
\* and one that does not exist, and the values yaml.v3 decodes into an any.
RegistrySpec ==
  /\ FuncInit("registry_set",
       {[Path |-> path, Type |-> type, Value |-> value] :
          path \in {<<>>, <<"H", "K", "L", "M">>,
                    <<"H", "K", "L", "M", "\\", "v">>,
                    <<"H", "K", "L", "M", "\\", "k", "\\", "v">>,
                    <<"h", "k", "c", "u", "\\", "k", "\\", "s", "\\", "v">>,
                    <<"H", "K", "X", "\\", "k", "\\", "v">>,
                    <<"\\", "k", "\\", "v">>},
          type \in {<<>>, <<"s", "t", "r", "i", "n", "g">>, <<"S", "Z">>,
                    <<"d", "w", "o", "r", "d">>, <<"D", "W", "o", "r", "d">>,
                    <<"q", "w", "o", "r", "d">>, <<"b", "i", "n", "a", "r", "y">>},
          value \in {[type |-> "nil", val |-> 0], [type |-> "bool", val |-> TRUE],
                     [type |-> "list", val |-> <<>>]}
                      \cup {[type |-> "string", val |-> str] :
                              str \in {<<>>, <<"7">>, <<" ", "4", "2">>, <<"7", "x">>,
                                       <<"x">>, <<"-", "1">>}}
                      \cup {[type |-> type, val |-> n] :
                              type \in {"int", "int64", "float64"}, n \in {-1, 0, 7}}})
  /\ [][handleRegistrySet]_vars

TypeOK ==
  /\ pc \in PersistPcs \cup
           {"down", "open", "call", "WriteRest", "pruned", "locked", "persist", "panicking", "StartRun", "loop", "exec", "RequestReboot", "rebooting",
             "failed", "complete", "ClearPendingReboot", "returned",
             "resumeLoop", "resumeDone"}
  /\ now \in Times
  /\ nextId \in 1..(MaxRuns + 1)
  /\ budget \in 0..MaxWork
  /\ DOMAIN runs \subseteq RunIds \cup {NoKey}
  /\ \A r \in DOMAIN runs : Len(runs[r].Steps) = runs[r].TotalSteps
  /\ peer.pc \in {"down", "open", "WriteFile", "Write", "WriteRest", "Rename"}
  /\ DOMAIN peer.runs \subseteq RunIds

(***************************************************************************)
(* Properties.  OnDisk is the run map a process would load from the state  *)
(* file as it is now.                                                      *)
(***************************************************************************)
OnDisk == load(disk)

StepIs(m, r, i, st) == r \in DOMAIN m /\ InRange(m[r], i) /\ StepAt(m[r], i).Status = st

\* C1: within one engine invocation the step after step i is marked pending
\* only once step i has been marked completed or failed (a run gone to
\* pending_reboot ends the invocation), and while the handler of a step is
\* about to be invoked or running, the state file holds that step as pending.
C1_PendingBeforeHandler ==
  /\ (call.op = "MarkStepPending" /\ call.err = NoErr /\ call.idx > start)
       => \/ StepIs(runs, call.run, call.idx - 1, StatusCompleted)
          \/ StepIs(runs, call.run, call.idx - 1, StatusFailed)
  /\ (pc \in {"exec", "RequestReboot"}
        \/ call.op \in {"handler", "MarkPendingReboot", "RequestReboot"})
       => /\ StepIs(OnDisk, cur, idx, StatusPending)
          /\ StepAt(OnDisk[cur], idx).StepID = StepID(idx)

\* The handler of a step that is not the first of its invocation is about
\* to be invoked.
C1_Witness == pc = "exec" /\ idx > start /\ call.op = "MarkStepPending"

\* C2: under the resume trigger no handler is invoked (execStep entered,
\* a plain handler called, or the reboot handler at work) for a step whose
\* StepRecord was already persisted as completed.
C2_NoCompletedStepAgain ==
  (pc \in {"exec", "RequestReboot"}
     \/ call.op \in {"handler", "MarkPendingReboot", "RequestReboot"})
    => <<cur, idx>> \notin done

\* A resumed run has the handler of the step after a completed one invoked.
C2_Witness ==
  /\ mode = "resume"
  /\ call.op = "handler"
  /\ <<cur, idx - 1>> \in done

\* C3: after a crash at any point the resume trigger continues every run
\* the state file holds in a non-terminal status: when it has gone through
\* the runs, none is left pending or running.
C3_InFlightResumed ==
  pc = "resumeDone"
    => \A r \in DOMAIN runs :
         runs[r].Status \in {StatusCompleted, StatusFailed, StatusPendingReboot}

\* C4: a RunWorkflow that returns from a successful reboot step k < n-1 has
\* left steps 0..k completed and the run in pending_reboot with
\* pending_reboot_next = k+1; a ContinueWorkflow from k+1 of a run whose
\* steps 0..k are completed, in which every step succeeds, ends with the run
\* completed and all n StepRecords completed.
C4_RebootThenContinue ==
  /\ (pc = "returned" /\ mode = "run" /\ herr = ErrRebooting /\ result = NoErr
        /\ idx < NumSteps(wf) - 1)
       => /\ cur \in DOMAIN runs
          /\ runs[cur].Status = StatusPendingReboot
          /\ runs[cur].PendingRebootNext = idx + 1
          /\ \A i \in 0..idx : StepIs(runs, cur, i, StatusCompleted)
  /\ (pc = "returned" /\ mode = "resume" /\ call.op = "MarkRunCompleted" /\ result = NoErr
        /\ \A i \in 0..(start - 1) : <<cur, i>> \in done)
       => /\ cur \in DOMAIN runs
          /\ runs[cur].Status = StatusCompleted
          /\ \A i \in 0..(NumSteps(wf) - 1) : StepIs(runs, cur, i, StatusCompleted)

\* C5 as stated: once a handler has reported reboot-requested the engine
\* does nothing but mark that step completed and return; the run is in
\* pending_reboot, and the result returned is not an error.
C5_RebootReturnsSuccess ==
  herr = ErrRebooting
    => /\ pc \in {"rebooting", "returned"}
       /\ cur \in DOMAIN runs
       /\ runs[cur].Status = StatusPendingReboot
       /\ pc = "returned"
            => /\ call.op = "MarkStepComplete" /\ call.run = cur /\ call.idx = idx
               /\ StepIs(runs, cur, idx, StatusCompleted)
               /\ result = NoErr

\* C5, amended: once a handler has reported reboot-requested the engine
\* does nothing but mark that step completed and return; the run is in
\* pending_reboot; the result is not an error if the write of
\* MarkStepComplete succeeded (the state file then holds the step as
\* completed and the run as pending_reboot), and is that write's error,
\* wrapped, if it failed.
C5_RebootReturnsWriteResult ==
  herr = ErrRebooting
    => /\ pc \in {"rebooting", "returned"}
       /\ cur \in DOMAIN runs
       /\ runs[cur].Status = StatusPendingReboot
       /\ pc = "returned"
            => /\ call.op = "MarkStepComplete" /\ call.run = cur /\ call.idx = idx
               /\ StepIs(runs, cur, idx, StatusCompleted)
               /\ call.err \in {NoErr, ErrIO}
               /\ call.err = NoErr
                    => /\ result = NoErr
                       /\ StepIs(OnDisk, cur, idx, StatusCompleted)
                       /\ OnDisk[cur].Status = StatusPendingReboot
               /\ call.err = ErrIO
                    => result = Wrap("mark step complete after reboot", ErrIO)

\* The engine has returned success from a reboot step.
C5_Witness ==
  /\ pc = "returned"
  /\ herr = ErrRebooting
  /\ call.op = "MarkStepComplete"
  /\ result = NoErr

\* C6: the resume trigger continues every run the state file holds in
\* pending_reboot: when it has gone through the runs, each of them is
\* completed or failed (the record pruned, perhaps), or waits for the next
\* restart at a later step.
C6_PendingRebootResumed ==
  pc = "resumeDone"
    => \A r \in DOMAIN exports :
         exports[r].Status = StatusPendingReboot
           => \/ r \notin DOMAIN runs
              \/ runs[r].Status \in {StatusCompleted, StatusFailed}
              \/ /\ runs[r].Status = StatusPendingReboot
                 /\ runs[r].PendingRebootNext > exports[r].PendingRebootNext

\* C7: every run record, in memory and in the state file, is in
\* pending_reboot exactly if pending_reboot_next is set and
\* pending_boot_mode is not empty; ClearPendingReboot leaves the run
\* running with both fields reset.
Bookkeeping(m) ==
  \A r \in DOMAIN m :
    (m[r].Status = StatusPendingReboot)
      <=> (m[r].PendingRebootNext # Nil /\ m[r].PendingBootMode # "")

C7_RebootBookkeeping ==
  /\ Bookkeeping(runs)
  /\ Bookkeeping(OnDisk)
  /\ (call.op = "ClearPendingReboot" /\ call.err \in {NoErr, ErrIO})
       => /\ runs[call.run].Status = StatusRunning
          /\ runs[call.run].PendingRebootNext = Nil
          /\ runs[call.run].PendingBootMode = ""

\* C8: no step of the program lowers the current_step_index of a run
\* record, in memory or in the state file.
IndexMonotone(m, n) ==
  \A r \in DOMAIN m \cap DOMAIN n : n[r].CurrentStepIndex >= m[r].CurrentStepIndex

C8_IndexMonotone == [][IndexMonotone(runs, runs') /\ IndexMonotone(OnDisk, OnDisk')]_vars

\* C9: when the engine has returned from a failed handler, the StepRecord of
\* the step is failed with the error text, the run is failed with that text
\* as last_error, the error returned is the handler's, and nothing was done
\* after MarkStepFailed.
C9_HandlerFailure ==
  call.op = "MarkStepFailed"
    => /\ pc = "returned"
       /\ herr # NoErr
       /\ result = herr
       /\ StepIs(runs, cur, idx, StatusFailed)
       /\ StepAt(runs[cur], idx).Error = herr
       /\ runs[cur].Status = StatusFailed
       /\ runs[cur].LastError = herr

\* C10: no step of the program changes the status or the StepRecords of a
\* run record that is failed, in memory or in the state file.
FailedStays(m, n) ==
  \A r \in DOMAIN m \cap DOMAIN n :
    m[r].Status = StatusFailed => (n[r].Status = StatusFailed /\ n[r].Steps = m[r].Steps)

C10_FailedIsTerminal == [][FailedStays(runs, runs') /\ FailedStays(OnDisk, OnDisk')]_vars

\* C11: a RunWorkflow in which every step succeeded and every write
\* succeeded has returned no error and left the run completed, with every
\* StepRecord completed under the id of its step (the workflow of no steps
\* included).
C11_AllStepsSucceed ==
  (pc = "returned" /\ mode = "run" /\ call.op = "MarkRunCompleted" /\ call.err = NoErr)
    => /\ result = NoErr
       /\ cur \in DOMAIN runs
       /\ runs[cur].Status = StatusCompleted
       /\ \A i \in 0..(NumSteps(wf) - 1) :
            /\ StepIs(runs, cur, i, StatusCompleted)
            /\ StepAt(runs[cur], i).StepID = StepID(i)

\* C12: a step whose action tag is not registered fails with the
\* unknown-action error: no handler is called, its StepRecord goes from
\* pending to failed and is never completed, the run is failed, the error
\* is returned and nothing is done after MarkStepFailed.
C12_UnknownAction ==
  /\ call.op = "default"
       => /\ herr = ErrUnknownAction
          /\ pc = "failed"
          /\ StepIs(runs, cur, idx, StatusPending)
  /\ (call.op = "MarkStepFailed" /\ herr = ErrUnknownAction)
       => /\ pc = "returned"
          /\ result = ErrUnknownAction
          /\ <<cur, idx>> \notin done
          /\ StepIs(runs, cur, idx, StatusFailed)
          /\ StepAt(runs[cur], idx).Error = ErrUnknownAction
          /\ runs[cur].Status = StatusFailed

\* C13: RunWorkflow with a run id the Store holds returns the
\* already-exists error of StartRun, with every record in memory and the
\* state file as they were, and without going on to any step.
C13_StartRunExists ==
  [][(pc = "StartRun" /\ cur \in DOMAIN runs /\ pc' # "down")
       => /\ runs' = runs
          /\ disk' = disk
          /\ call' = Call("StartRun", cur, 0, ErrExists)
          /\ result' = Wrap("start run", ErrExists)
          /\ pc' = "returned"]_vars

\* RunWorkflow has returned the already-exists error.
C13_Witness ==
  /\ pc = "returned"
  /\ call.op = "StartRun"
  /\ call.err = ErrExists
  /\ cur \in DOMAIN runs

\* The records of m with a terminal status.
TerminalRuns(m) == { k \in DOMAIN m : Terminal(m[k].Status) }

\* C14: a Store that started empty holds at most one record with a terminal
\* status after any sequence of its operations, in memory and in every
\* snapshot it has written.
C14_OneTerminal ==
  /\ Cardinality(TerminalRuns(runs)) <= 1
  /\ Cardinality(TerminalRuns(OnDisk)) <= 1

\* Pruning has deleted a terminal record: the last snapshot written still has
\* it, the memory of the Store has another terminal record in its place.
C14_Witness ==
  /\ pc = "open"
  /\ call.op \in {"MarkStepFailed", "MarkRunCompleted"}
  /\ \E k \in TerminalRuns(OnDisk) : k \notin DOMAIN runs
  /\ TerminalRuns(runs) = {call.run}

\* C15: a record a Store operation removes from the map was terminal before
\* the operation, or is the record the operation itself has just marked
\* failed or completed, so that every record pruning deletes is terminal when
\* it is deleted.  (The end of the process, which takes the whole map with
\* it, is no operation of the Store.)
C15_NonTerminalKept ==
  [][pc' # "down" =>
       \A k \in DOMAIN runs \ DOMAIN runs' :
          \/ Terminal(runs[k].Status)
          \/ k = call'.run /\ call'.op \in {"MarkStepFailed", "MarkRunCompleted"}]_vars

\* A pruning trigger has run while the Store held a non-terminal record of
\* another run, which is still there.
C15_Witness ==
  /\ pc = "open"
  /\ call.op \in {"MarkStepFailed", "MarkRunCompleted"}
  /\ call.err = NoErr
  /\ \E k \in DOMAIN runs : k # call.run /\ ~Terminal(runs[k].Status)

C17_ExportDeepCopy ==
  [][(pc = "open" /\ budget' < budget
        /\ call'.op \in {"write field", "write step", "write next"})
       => runs' = runs /\ Export(runs') = Export(runs) /\ Marshal(runs') = Marshal(runs)]_vars

\* C18: no step of persistLocked, and no end of the process at any point of
\* it, leaves the state file other than as it was or as the whole snapshot
\* of the map being written; the state file never holds part of a snapshot.
C18_WholeSnapshot ==
  [][/\ disk' = disk \/ disk' = File(Marshal(runs))
     /\ Whole(disk) /\ Whole(disk')]_vars

\* The process has ended while WriteFile was writing the temporary file, with
\* an earlier snapshot in the state file.
C18_Witness ==
  /\ pc = "down"
  /\ disk.present
  /\ tmp.present /\ ~Whole(tmp)
  /\ tmp.content # disk.content

\* C19: when a mutating method of the Store has returned nil, the state file
\* holds the snapshot of the map in memory; when the write or the rename
\* failed, and the file is not that snapshot, the method has returned an
\* error.
C19_PersistedOnSuccess ==
  (pc = "open" /\ call.op \in Mutating /\ call.err = NoErr)
     => disk = File(Marshal(runs))

\* A mutating method has returned nil with two records in the map, both of
\* them in the state file.
C19_Witness ==
  /\ pc = "open"
  /\ call.op \in Mutating
  /\ call.err = NoErr
  /\ disk = File(Marshal(runs))
  /\ Cardinality(DOMAIN runs) >= 2

\* C20: when a mutating method of the Store has returned nil, a Store opened
\* on the state file holds exactly the records Export returns to the writer
\* at that moment.
C20_RoundTrip ==
  (pc = "open" /\ call.op \in Mutating /\ call.err = NoErr)
     => OnDisk = Export(runs)

\* A step in which the method `op` of the Store is called and returns: by a
\* direct caller, or by the engine from inside a run.
StoreCallStep(ops) ==
  /\ call'.op \in ops
  /\ pc' # "down"
  /\ \/ pc = "open" /\ budget' < budget
     \/ pc \in {"loop", "exec", "rebooting", "failed", "complete", "ClearPendingReboot"}

\* C21: a method of the Store other than StartRun called with a run id the
\* map does not have returns the not-found error and leaves the map and the
\* state file as they were; ContinueWorkflow with such a run id changes
\* neither and returns the not-found error of ClearPendingReboot, or, when
\* the start index is out of range too, the out-of-range error (which the
\* specification lists in the same class of errors).
C21_NotFound ==
  [][/\ (StoreCallStep(Mutating \ {"StartRun"}) /\ call'.run \notin DOMAIN runs)
          => call'.err = ErrNotFound /\ runs' = runs /\ disk' = disk
     /\ (pc = "open" /\ pc' \in {"returned", "ClearPendingReboot"} /\ cur' \notin DOMAIN runs)
          => /\ runs' = runs /\ disk' = disk
             /\ pc' = "returned" => result' = ErrOutOfRange
     /\ (pc = "ClearPendingReboot" /\ cur \notin DOMAIN runs)
          => /\ runs' = runs /\ disk' = disk
             /\ pc' = "returned"
             /\ result' = Wrap("clear pending reboot", ErrNotFound)]_vars

\* ContinueWorkflow has returned the not-found error for a run id that a
\* Store holding other records does not have.
C21_Witness ==
  /\ pc = "returned"
  /\ mode = "store"
  /\ result = Wrap("clear pending reboot", ErrNotFound)
  /\ cur \notin DOMAIN runs
  /\ DOMAIN runs # {}

\* C22: MarkStepPending, MarkStepComplete and MarkStepFailed called for a
\* run the Store holds with the first index beyond its step records (by a
\* direct caller, or by runFromIndex for a workflow with more steps than the
\* run has) return an error and leave the map and the state file as they
\* were.
C22_IndexRejected ==
  [][/\ (pc = "loop" /\ cur \in DOMAIN runs /\ idx < NumSteps(wf) /\ ~InRange(runs[cur], idx))
          => pc' = "returned" /\ result' # NoErr /\ runs' = runs /\ disk' = disk
     /\ \A runID \in DOMAIN runs, t \in Times, ok \in BOOLEAN :
          LET i == Len(runs[runID].Steps)
          IN (/\ UNCHANGED nextId
              /\ \/ StoreOp("MarkStepPending", runID, i,
                             MarkStepPending(runs, runID, i, StepID(i), t), ok, t)
                 \/ StoreOp("MarkStepComplete", runID, i,
                             MarkStepComplete(runs, runID, i, t), ok, t)
                 \/ StoreOp("MarkStepFailed", runID, i,
                             MarkStepFailed(runs, runID, i, ErrHandler, t, <<>>), ok, t))
             => pc' = "open" /\ call'.err # NoErr /\ runs' = runs /\ disk' = disk]_vars

\* The steps start .. idx-1 of the run have been executed and marked
\* completed, one after the other.
StepsInOrder ==
  /\ start <= idx /\ idx <= NumSteps(wf)
  /\ \A j \in start..(idx - 1) : StepIs(runs, cur, j, StatusCompleted)

\* C23: ContinueWorkflow with a start index outside 0 .. len(steps)-1 returns
\* an error and calls no method of the Store, so that map and state file are
\* as before; with a start index inside, its first call is
\* ClearPendingReboot, after whose success the run is running with the
\* reboot bookkeeping cleared, and only then are steps executed: the one at
\* the start index first, each later one after its predecessor was marked
\* completed.
C23_ContinueWorkflow ==
  [][/\ (pc = "down" /\ mode' = "api")
          => \A startIndex \in (-1)..(MaxSteps + 1) :
               ContinueWorkflow(cur', wf', startIndex)
                 => IF startIndex < 0 \/ startIndex >= NumSteps(wf')
                    THEN /\ pc' = "returned" /\ result' = ErrOutOfRange
                         /\ runs' = OnDisk /\ disk' = disk
                    ELSE /\ pc' = "ClearPendingReboot" /\ start' = startIndex
                         /\ runs' = OnDisk /\ disk' = disk
     /\ (mode = "api" /\ pc = "ClearPendingReboot")
          => \/ /\ pc' = "returned" /\ result' # NoErr
             \/ /\ pc' = "loop" /\ idx' = start
                /\ runs'[cur].Status = StatusRunning
                /\ runs'[cur].PendingRebootNext = Nil
                /\ runs'[cur].PendingBootMode = ""
                /\ runs'[cur].ResumeDelaySeconds = 0
     /\ (mode = "api" /\ pc' \in {"exec", "RequestReboot", "rebooting", "failed", "complete"})
          => /\ pc \notin {"down", "ClearPendingReboot"}
             /\ idx' = idx /\ idx' < NumSteps(wf')
             /\ StepsInOrder'
     /\ (mode = "api" /\ pc' = "loop" /\ pc # "ClearPendingReboot")
          => pc = "complete" /\ idx' = idx + 1 /\ StepsInOrder']_vars

\* ContinueWorkflow from start index 0 is executing the second step of a run
\* that waited for its reboot, the first step marked completed before.
C23_Witness ==
  /\ mode = "api"
  /\ pc = "exec"
  /\ start = 0
  /\ idx = 1
  /\ cur \in DOMAIN OnDisk
  /\ OnDisk[cur].PendingBootMode = ""

C25_TargetWhole == Whole(disk)

\* C26: a run resumed after a reboot step that recorded a delay has its first
\* resumed step executed no earlier than the recorded number of seconds after
\* the boot; the boot is no earlier than the write of MarkPendingReboot, whose
\* time and delay are in the snapshot resumePending exported.
C26_ResumeDelayHonoured ==
  (/\ mode = "resume"
   /\ pc = "exec"
   /\ idx = start
   /\ cur \in DOMAIN exports
   /\ exports[cur].ResumeDelaySeconds > 0)
    => now >= exports[cur].UpdatedAt + exports[cur].ResumeDelaySeconds

\* C27: expectedBool classifies every value: absent gives true; a bool gives
\* itself; the words true/1/yes/on and false/0/no/off in any case, with white
\* space around them, give true and false; a number gives whether it is not
\* zero; every other string and every other type gives an error.
C27_LooseBoolean ==
  (pc = "returned" /\ call.op = "expectedBool")
    => LET v == call.arg
       IN  CASE v.type = "nil" -> result = BoolResult(TRUE, NoErr)
             [] v.type = "bool" -> result = BoolResult(v.val, NoErr)
             [] v.type = "string" ->
                  IF v.val \in Padded(LooseWords.true) THEN result = BoolResult(TRUE, NoErr)
                  ELSE IF v.val \in Padded(LooseWords.false) THEN result = BoolResult(FALSE, NoErr)
                  ELSE result.err # NoErr
             [] v.type \in {"int", "int64", "uint64", "float64"} ->
                  result = BoolResult(v.val # 0, NoErr)
             [] OTHER -> result.err # NoErr

\* C28: the search root of a pattern is the parent directory of its longest
\* prefix without a metacharacter, and the current directory when there is
\* no such prefix: C:\Drivers\.*\.sys gives C:\Drivers, and *.log (any
\* pattern that begins with a metacharacter) gives the current directory.
C28_SearchRoot ==
  (pc = "returned" /\ call.op = "searchRoot")
    => /\ call.arg = <<"C", ":", "\\", "D", "r", "i", "v", "e", "r", "s", "\\", ".", "*", "\\", ".", "s", "y", "s">> => result = <<"C", ":", "\\", "D", "r", "i", "v", "e", "r", "s">>
       /\ call.arg[1] \in Meta => result = <<".">>

\* C29: the reboot handler asks for the restart only once MarkPendingReboot
\* has returned without error, with the state file holding the run as
\* pending_reboot, next step idx + 1, the boot mode and the delay of the step;
\* when MarkPendingReboot fails no restart is asked for and the handler does
\* not return the reboot-requested outcome.
C29_TwoPhaseReboot ==
  /\ (pc = "RequestReboot" \/ call.op = "RequestReboot")
       => /\ cur \in DOMAIN OnDisk
          /\ OnDisk[cur].Status = StatusPendingReboot
          /\ OnDisk[cur].PendingRebootNext = idx + 1
          /\ \E step \in RebootParams :
               /\ OnDisk[cur].PendingBootMode = (IF step.SafeMode THEN "safe" ELSE "normal")
               /\ OnDisk[cur].ResumeDelaySeconds = step.ResumeDelaySeconds
  /\ pc = "RequestReboot" => call = Call("MarkPendingReboot", cur, idx, NoErr)
  /\ (call.op = "MarkPendingReboot" /\ call.err # NoErr)
       => pc \notin {"RequestReboot", "rebooting"} /\ herr # ErrRebooting
  /\ pc = "rebooting" => call = Call("RequestReboot", cur, idx, NoErr)

\* The restart has been asked for, after the intent was written.
C29_Witness ==
  /\ pc = "rebooting"
  /\ call = Call("RequestReboot", cur, idx, NoErr)
  /\ OnDisk[cur].PendingRebootNext = idx + 1

\* C30: once the write of StartRun, MarkStepPending, MarkStepComplete or
\* MarkPendingReboot has failed during a run, the engine has returned an
\* error to its caller: the failed call stays the last Store call and the
\* last handler activity of that invocation.
C30_WriteFailureAborts ==
  (/\ call.op \in {"StartRun", "MarkStepPending", "MarkStepComplete", "MarkPendingReboot"}
   /\ call.err = ErrIO)
    => pc = "returned" /\ result # NoErr


\* C31 as stated: once the write of a mutating method has failed and the
\* state file is not the snapshot of the map in memory, it is not that
\* snapshot after any later call of a mutating method by the same process.
C31_StaysDiverged ==
  [][(/\ pc = "open" /\ call.op \in Mutating /\ call.err = ErrIO
      /\ disk # File(Marshal(runs))
      /\ StoreCallStep(Mutating))
       => disk' # File(Marshal(runs'))]_vars

\* C31, amended: a mutating method changes the map in memory before it
\* writes; when the write fails the state file stays as it was and the map
\* keeps the change (MarkStepPending: the step is pending in memory); the
\* next mutating call whose write succeeds writes the whole map, the change
\* of the failed call included, and the state file is again the snapshot of
\* the memory.
C31_DivergedUntilNextWrite ==
  [][StoreCallStep(Mutating)
       => /\ call'.err # NoErr => disk' = disk
          /\ call'.err = NoErr => disk' = File(Marshal(runs'))
          /\ (call'.err = ErrIO /\ call'.op = "MarkStepPending")
               => /\ StepIs(runs', call'.run, call'.idx, StatusPending)
                  /\ runs'[call'.run].Status = StatusRunning
                  /\ runs'[call'.run].CurrentStepIndex = call'.idx]_vars

\* The write of MarkStepPending has failed: the step is pending in memory
\* and not in the state file.
C31_Witness ==
  /\ pc = "open"
  /\ call.op = "MarkStepPending"
  /\ call.err = ErrIO
  /\ StepIs(runs, call.run, call.idx, StatusPending)
  /\ ~StepIs(OnDisk, call.run, call.idx, StatusPending)

C33_ValidationFirst ==
  (pc = "returned" /\ result.err \notin {NoErr, <<"registry: access denied">>})
     => result.calls = <<>>

\* C34: when MarkRunCompleted or MarkStepFailed has returned without error,
\* the run it was called for is in the map and in the state file with the
\* terminal status the call gave it: pruning did not delete it.
C34_JustTerminalKept ==
  (/\ pc = "open"
   /\ call.op \in {"MarkRunCompleted", "MarkStepFailed"}
   /\ call.err = NoErr)
     => /\ call.run \in DOMAIN runs
        /\ call.run \in DOMAIN OnDisk
        /\ runs[call.run].Status =
             IF call.op = "MarkRunCompleted" THEN StatusCompleted ELSE StatusFailed

\* C35: a run the state file holds as completed has every one of its step
\* records completed, also when the restart ended the process after
\* MarkPendingReboot and the run was continued from pending_reboot_next.
C35_CompletedMeansAllSteps ==
  \A r \in DOMAIN OnDisk :
     OnDisk[r].Status = StatusCompleted
       => \A i \in 0..(OnDisk[r].TotalSteps - 1) : StepIs(OnDisk, r, i, StatusCompleted)

\* C37: with two processes on one state file, a run record that is in the
\* file and not terminal is still in the file after any step of either
\* process: a mutating Store call for another run id does not remove it.
C37_PeerRecordKept ==
  [][(Whole(disk) /\ Whole(disk'))
       => \A r \in DOMAIN load(disk) :
            load(disk)[r].Status \notin {StatusCompleted, StatusFailed}
              => r \in DOMAIN load(disk')]_vars

\* C36: with two resume triggers on one state file, no step of a run has
\* had its handler invoked and returned in both of them.
C36_StepExecutedOnce ==
  ~(/\ pc \in {"complete", "failed"}
    /\ peer.pc \in {"complete", "failed"}
    /\ mode = "resume"
    /\ peer.mode = "resume"
    /\ cur = peer.cur
    /\ idx = peer.idx)

\* C38: MarkStepPending, MarkStepComplete and MarkStepFailed called for step
\* i of a run r the map holds leave the other step records of r as they
\* were, leave len(Steps) equal to total_steps, and leave every other run
\* that is not terminal as it was; MarkStepComplete also leaves the status
\* of r and its reboot bookkeeping as they were.
C38_StepMarkFrame ==
  [][(/\ StoreCallStep({"MarkStepPending", "MarkStepComplete", "MarkStepFailed"})
      /\ call'.run \in DOMAIN runs)
       => LET r == call'.run
              i == call'.idx
          IN  /\ r \in DOMAIN runs'
              /\ Len(runs'[r].Steps) = runs'[r].TotalSteps
              /\ Len(runs'[r].Steps) = Len(runs[r].Steps)
              /\ \A j \in 0..(Len(runs[r].Steps) - 1) :
                   j # i => StepAt(runs'[r], j) = StepAt(runs[r], j)
              /\ \A q \in DOMAIN runs \ {r} :
                   ~Terminal(runs[q].Status) => q \in DOMAIN runs' /\ runs'[q] = runs[q]
              /\ call'.op = "MarkStepComplete"
                   => /\ runs'[r].Status = runs[r].Status
                      /\ runs'[r].PendingRebootNext = runs[r].PendingRebootNext
                      /\ runs'[r].PendingBootMode = runs[r].PendingBootMode
                      /\ runs'[r].ResumeDelaySeconds = runs[r].ResumeDelaySeconds]_vars

\* C39: when RunWorkflow or ContinueWorkflow has returned and no write of
\* the state file failed during the call, the run is in the map and in the
\* file as completed (nil returned), failed (the error of the step
\* returned) or pending_reboot (nil returned): it is not left running.
C39_ReturnsSettled ==
  (/\ pc = "returned"
   /\ call.op \in Mutating
   /\ call.err = NoErr
   /\ herr # ErrIO)
     => /\ cur \in DOMAIN runs
        /\ cur \in DOMAIN OnDisk
        /\ OnDisk[cur].Status = runs[cur].Status
        /\ \/ runs[cur].Status = StatusCompleted /\ result = NoErr
           \/ runs[cur].Status = StatusFailed /\ result # NoErr
           \/ runs[cur].Status = StatusPendingReboot /\ result = NoErr
====
